---------------------------- MODULE Spec2Model ----------------------------
(***************************************************************************)
(* Model of the SlowMA artwork-analysis services:                          *)
(*   - the vision aggregator (performVisionAnalysis / performVisualAnalysis*)
(*     / combineVisionData),                                               *)
(*   - the "comprehensive" pipeline (comprehensiveEducationalService.ts    *)
(*     and the /api/analyze-comprehensive route of server.js),             *)
(*   - the "educational" pipeline (EducationalArtService),                 *)
(*   - ArtworkAnalysisService.analyzeArtwork and generateAnalysisSummary.  *)
(* Each part has its own specification over the shared variables; the      *)
(* variables a specification does not use keep their initial value.        *)
(***************************************************************************)
EXTENDS Integers, Sequences, FiniteSets

VARIABLES
  \* ---- vision aggregator ----
  vkeys,      \* which vision credentials are configured
  vcall,      \* per provider: state of its promise
  verr,       \* per provider: why its promise rejected
  vval,       \* per provider: the value its promise fulfilled with
  vpc,        \* position of performVisionAnalysis
  combined,   \* the merged observation
  \* ---- EducationalArtService (analyzeArtworkEducationally) ----
  epc,            \* position of the request in the four-stage workflow
  eopenai,        \* whether the OpenAI credential is configured
  analysisStages, \* this.analysisStages of the service instance
  insight,        \* the parsed interpretation reply
  erecall,        \* which recall calls were dispatched, and the bundle returned
  eresult,        \* what analyzeArtworkEducationally returned or threw
  \* ---- comprehensive pipeline (analyzeArtworkComprehensively) ----
  cpc,        \* position of the request
  ckeys,      \* which of the OpenAI, Harvard and Art Search credentials are set
  cinsight,   \* the parsed interpretation reply
  cslots,     \* per recall slot: state of its call
  recallData, \* the bundle object the recall handlers write to
  cresult,    \* what the request returned or threw, and where
  \* ---- ArtworkAnalysisService.analyzeArtwork ----
  apc,        \* position in analyzeArtwork
  akeys,      \* per credential: "absent", "placeholder" or "real"
  aresults,   \* results: the `source` of each analysis pushed, in order
  avision,    \* visionResults.length
  aextras,    \* which of metMuseumData, colorAnalysis, wikipediaData,
              \* openAIAnalysis, similarArtworks are set
  asent,      \* the providers a request was sent to
  aok,        \* the providers whose call returned data
  aresult,    \* what analyzeArtwork returned or threw
  \* ---- generateAnalysisSummary ----
  spc,        \* "idle", then "done" once the summary is composed
  sinput,     \* the arguments of the call
  summary,    \* summary.slice(0, 40): the units that are joined
  \* ---- two overlapping requests on the EducationalArtService singleton ----
  rpc,        \* per overlapping request: its position in the workflow
  rwritten,   \* per request: the stage records it pushed, in order
  rresult,     \* per request: what analyzeArtworkEducationally returned or threw
  \* ---- one request whose concurrent calls complete in any order ----
  opc, \* position of the request whose calls complete in any order
  oresp, \* per call: whether the provider answers with data (fixed for the request)
  ocall, \* per call: "idle", "pending" or "settled"
  oresults, \* per join: the array Promise.allSettled fills
  obundle, \* the recall bundle the handlers write to
  ocombined, \* the merged vision observation
  \* ---- the museum search functions of ArtworkAnalysisService ----
  qfn, \* which search function of ArtworkAnalysisService is running
  qpc, \* its position
  qkey, \* whether the Art Search credential is configured
  qsimple, \* whether the query has a non-empty first token
  qlog, \* the requests sent so far, in order, each with its outcome
  qresult, \* "none", then "empty" or "items" once the function returned
  \* ---- searchWikipedia ----
  wfn, \* which searchWikipedia runs: "api" (apiService.ts) or "server" (server.js)
  wquery, \* the query it is called with
  wclean, \* its cleanQuery
  wpc, \* its position
  wlog, \* the requests sent, in order: the term asked and the outcome
  wresult, \* "none", then "page" or "null" once it returned
  \* ---- extractComprehensiveSearchTerms on its own ----
  tpc, \* "idle", then "done" once extractComprehensiveSearchTerms was applied
  tlabels, \* the vision labels it is called with
  tinsight, \* the insight it is called with
  tterms, \* what it returned, or that it threw
  \* ---- findSimilarArtworks of server.js on its own ----
  mpc, \* "idle", then "done" once findSimilarArtworks returned
  mterms, \* searchTerms.length
  mfound, \* per term searched: the settled Met Museum and Art Institute searches
  msearched, \* the number of terms searched
  msimilar, \* the list returned
  \* ---- parsing of a text-generation reply ----
  ppc, \* "idle", then "done" once the reply was parsed
  pfn, \* the function that parsed it
  preply, \* the content of the reply
  presult, \* whether JSON.parse succeeded and how the function ended
  \* ---- extractColorsFromImage ----
  xpc, \* "idle", then "done" once extractColorsFromImage resolved
  xload, \* how the image loads: "error", "nocontext" or "decoded"
  xpixels, \* the sampled pixels of the image, in scan order
  xcrowd, \* the number of further sampled pixels, each alone in a bucket of its own
  xpalette, \* the palette the promise resolved with
  \* ---- colour harmony ----
  hpc, \* "off", "idle" or "done"
  hfn, \* which analyzeColorHarmony runs: "apiService" or "server"
  hcolors, \* the colours it is given
  hharmony, \* the sentence it returns, "" before it returns
  \* ---- the analysis screen of the demo ----
  screen, \* "off", "mounted", or "home" once navigate("/") ran
  imageUri, \* location.state?.imageUri, "absent" when undefined
  imageFile, \* location.state?.imageFile, "absent" when undefined
  loading, \* the loading state
  artworkInfo, \* the artworkInfo state
  error, \* the error state
  hasAnalyzed, \* hasAnalyzed.current
  effectDue, \* the effect is to run: after the mount or a change of its dependencies
  lastEffect, \* what the last run of the effect did
  pending, \* the call of apiService.analyzeArtwork has not settled
  invoked, \* how many times apiService.analyzeArtwork was invoked
  changes \* how many times the location state changed

visionVars == <<vkeys, vcall, verr, vval, vpc, combined>>

eduVars == <<epc, eopenai, analysisStages, insight, erecall, eresult>>

compVars == <<cpc, ckeys, cinsight, cslots, recallData, cresult>>

analyzeVars == <<apc, akeys, aresults, avision, aextras, asent, aok, aresult>>

summaryVars == <<spc, sinput, summary>>

overlapVars == <<rpc, rwritten, rresult>>

orderVars == <<opc, oresp, ocall, oresults, obundle, ocombined>>

searchVars == <<qfn, qpc, qkey, qsimple, qlog, qresult>>

wikiVars == <<wfn, wquery, wclean, wpc, wlog, wresult>>

termsVars == <<tpc, tlabels, tinsight, tterms>>

similarVars == <<mpc, mterms, mfound, msearched, msimilar>>

parseVars == <<ppc, pfn, preply, presult>>

paletteVars == <<xpc, xload, xpixels, xcrowd, xpalette>>

harmonyVars == <<hpc, hfn, hcolors, hharmony>>

screenVars == <<screen, imageUri, imageFile, loading, artworkInfo, error, hasAnalyzed, effectDue, lastEffect, pending, invoked, changes>>

vars == <<visionVars, eduVars, compVars, analyzeVars, summaryVars, overlapVars, orderVars, searchVars, wikiVars, termsVars, similarVars, parseVars, paletteVars, harmonyVars, screenVars>>

notVision == <<eduVars, compVars, analyzeVars, summaryVars, overlapVars, orderVars, searchVars, wikiVars, termsVars, similarVars, parseVars, paletteVars, harmonyVars, screenVars>>
notEdu == <<compVars, analyzeVars, summaryVars, overlapVars, orderVars, searchVars, wikiVars, termsVars, similarVars, parseVars, paletteVars, harmonyVars, screenVars>>
notComp == <<eduVars, analyzeVars, summaryVars, overlapVars, orderVars, searchVars, wikiVars, termsVars, similarVars, parseVars, paletteVars, harmonyVars, screenVars>>
notAnalyze == <<visionVars, eduVars, compVars, summaryVars, overlapVars, orderVars, searchVars, wikiVars, termsVars, similarVars, parseVars, paletteVars, harmonyVars, screenVars>>
notSummary == <<visionVars, eduVars, compVars, analyzeVars, overlapVars, orderVars, searchVars, wikiVars, termsVars, similarVars, parseVars, paletteVars, harmonyVars, screenVars>>
notOverlap == <<visionVars, epc, eopenai, insight, erecall, eresult, compVars, analyzeVars, summaryVars, orderVars, searchVars, wikiVars, termsVars, similarVars, parseVars, paletteVars, harmonyVars, screenVars>>
notOrder == <<visionVars, eduVars, compVars, analyzeVars, summaryVars, overlapVars, searchVars, wikiVars, termsVars, similarVars, parseVars, paletteVars, harmonyVars, screenVars>>
notSearch == <<visionVars, eduVars, compVars, analyzeVars, summaryVars, overlapVars, orderVars, wikiVars, termsVars, similarVars, parseVars, paletteVars, harmonyVars, screenVars>>
notWiki == <<visionVars, eduVars, compVars, analyzeVars, summaryVars, overlapVars, orderVars, searchVars, termsVars, similarVars, parseVars, paletteVars, harmonyVars, screenVars>>
notTerms == <<visionVars, eduVars, compVars, analyzeVars, summaryVars, overlapVars, orderVars, searchVars, wikiVars, similarVars, parseVars, paletteVars, harmonyVars, screenVars>>
notSimilar == <<visionVars, eduVars, compVars, analyzeVars, summaryVars, overlapVars, orderVars, searchVars, wikiVars, termsVars, parseVars, paletteVars, harmonyVars, screenVars>>
notParse == <<visionVars, eduVars, compVars, analyzeVars, summaryVars, overlapVars, orderVars, searchVars, wikiVars, termsVars, similarVars, paletteVars, harmonyVars, screenVars>>
notPalette == <<visionVars, eduVars, compVars, analyzeVars, summaryVars, overlapVars, orderVars, searchVars, wikiVars, termsVars, similarVars, parseVars, harmonyVars, screenVars>>
notHarmony == <<visionVars, eduVars, compVars, analyzeVars, summaryVars, overlapVars, orderVars, searchVars, wikiVars, termsVars, similarVars, parseVars, paletteVars, screenVars>>
notScreen == <<visionVars, eduVars, compVars, analyzeVars, summaryVars, overlapVars, orderVars, searchVars, wikiVars, termsVars, similarVars, parseVars, paletteVars, harmonyVars>>

-----------------------------------------------------------------------------
(* Bounds *)

\* the provider responses of one request carry at most MaxItems annotations
\* in total (labels, objects, colours, text lines and faces together)
MaxItems == 4
\* at most MaxFailures recall slot calls fail in one request
MaxFailures == 1
\* a text-generation analysis has at most MaxOptional of its seven optional
\* fields, or lacks at most MaxOptional of them
MaxOptional == 1

\* extractComprehensiveSearchTerms is applied to at most MaxLabels labels
MaxLabels == 2

\* an Art Institute search finds at most MaxFound records
MaxFound == 2

\* a reply has at most MaxReply characters
MaxReply == 4

\* an image has at most MaxPixels sampled pixels besides its crowd
MaxPixels == 3

\* colours given to analyzeColorHarmony
MaxColors == 3

\* changes of the location state while the analysis screen is mounted
MaxChanges == 2

-----------------------------------------------------------------------------
(* Generic helpers *)

SeqsUpTo(S, n) == UNION {[1..k -> S] : k \in 0..n}

Elems(s) == {s[i] : i \in 1..Len(s)}

\* Array.prototype.indexOf: the first index holding x (1-based), 0 if none
IndexOf(s, x) ==
  IF x \in Elems(s)
    THEN CHOOSE i \in 1..Len(s) : s[i] = x /\ \A j \in 1..(i-1) : s[j] # x
    ELSE 0

RECURSIVE DedupFrom(_, _)
DedupFrom(s, i) ==
  IF i > Len(s) THEN <<>>
  ELSE (IF IndexOf(s, s[i]) = i THEN <<s[i]>> ELSE <<>>) \o DedupFrom(s, i + 1)

\* arr.filter((x, index, self) => self.indexOf(x) === index)
Dedup(s) == DedupFrom(s, 1)

-----------------------------------------------------------------------------
(* Strings as sequences of characters *)

Lowers == <<"a", "b", "c", "d", "e", "f", "g", "h", "i", "j", "k", "l", "m", "n", "o", "p", "q", "r", "s", "t", "u", "v", "w", "x", "y", "z">>
Uppers == <<"A", "B", "C", "D", "E", "F", "G", "H", "I", "J", "K", "L", "M", "N", "O", "P", "Q", "R", "S", "T", "U", "V", "W", "X", "Y", "Z">>
Digits == {"0", "1", "2", "3", "4", "5", "6", "7", "8", "9"}
Whitespace == {" "}

\* String.prototype.toLowerCase, character by character
LowerChar(c) ==
  IF \E i \in 1..Len(Uppers) : Uppers[i] = c
    THEN Lowers[CHOOSE i \in 1..Len(Uppers) : Uppers[i] = c]
    ELSE c

toLowerCase(str) == [i \in 1..Len(str) |-> LowerChar(str[i])]

\* String.prototype.includes
includes(str, sub) ==
  \E i \in 0..(Len(str) - Len(sub)) : SubSeq(str, i + 1, i + Len(sub)) = sub

\* the character class [a-zA-Z0-9\s-]
KeptChar(c) == c \in Elems(Lowers) \cup Elems(Uppers) \cup Digits \cup Whitespace \cup {"-"}

\* term.replace(/[^a-zA-Z0-9\s-]/g, ' ')
replacePunctuation(str) == [i \in 1..Len(str) |-> IF KeptChar(str[i]) THEN str[i] ELSE " "]

RECURSIVE trimStart(_)
trimStart(str) ==
  IF str # <<>> /\ Head(str) \in Whitespace THEN trimStart(Tail(str)) ELSE str

RECURSIVE trimEnd(_)
trimEnd(str) ==
  IF str # <<>> /\ str[Len(str)] \in Whitespace
    THEN trimEnd(SubSeq(str, 1, Len(str) - 1)) ELSE str

\* String.prototype.trim
trim(str) == trimEnd(trimStart(str))

Min(a, b) == IF a < b THEN a ELSE b

-----------------------------------------------------------------------------
(* Vision aggregator *)

Providers == {"clarifai", "google", "microsoft"}

LabelNames  == {"red", "blue", "green"}
ObjectNames == {"bridge"}
ColorNames  == {"rgb(100, 150, 200)"}
TextNames   == {"signature"}

EmptyResult ==
  [labels |-> <<>>, objects |-> <<>>, colors |-> <<>>, text |-> <<>>, faces |-> 0]

Size(r) ==
  Len(r.labels) + Len(r.objects) + Len(r.colors) + Len(r.text) + r.faces

\* analyzeWithClarifai returns {labels, confidence}: concept names only
ClarifaiResults ==
  {[EmptyResult EXCEPT !.labels = l] : l \in SeqsUpTo(LabelNames, MaxItems)}

\* analyzeWithGoogleVision returns {labels, objects, text, colors, faces}
GoogleResults ==
  {r \in [labels : SeqsUpTo(LabelNames, MaxItems),
          objects : SeqsUpTo(ObjectNames, MaxItems),
          colors : SeqsUpTo(ColorNames, MaxItems),
          text : SeqsUpTo(TextNames, MaxItems),
          faces : 0..MaxItems] : Size(r) <= MaxItems}

\* analyzeWithMicrosoftVision returns {labels, objects, text, colors, categories}:
\* it reports no face count
MicrosoftResults == {r \in GoogleResults : r.faces = 0}

ResultsOf(p) ==
  CASE p = "clarifai" -> ClarifaiResults
    [] p = "google" -> GoogleResults
    [] p = "microsoft" -> MicrosoftResults

\* the answers of each provider, by number of annotations
ResultsBySize ==
  [p \in Providers |->
     [n \in 0..MaxItems |-> {r : r \in {x \in ResultsOf(p) : Size(x) = n}}]]

\* the answers of p that keep the request within MaxItems annotations
ResultsWithinBound(p) ==
  LET used == Size(vval["clarifai"]) + Size(vval["google"]) + Size(vval["microsoft"])
  IN UNION {ResultsBySize[p][n] : n \in 0..(MaxItems - used)}

\* why a provider call rejects: the credential check at the top of the call,
\* `if (!response.ok) throw`, or response.json() / data.responses[0] throwing
CallErrors == {"nokey", "http", "malformed"}

\* the promise of provider p rejects
VisionReject(p, e) ==
  /\ vpc = "calling"
  /\ vcall[p] = "pending"
  /\ e \in CallErrors
  /\ (e = "nokey") = ~vkeys[p]
  /\ vcall' = [vcall EXCEPT ![p] = "rejected"]
  /\ verr' = [verr EXCEPT ![p] = e]
  /\ UNCHANGED <<vkeys, vval, vpc, combined, notVision>>

\* the promise of provider p fulfils with the normalised result r
VisionFulfil(p, r) ==
  /\ vpc = "calling"
  /\ vcall[p] = "pending"
  /\ vkeys[p]
  /\ vcall' = [vcall EXCEPT ![p] = "fulfilled"]
  /\ vval' = [vval EXCEPT ![p] = r]
  /\ UNCHANGED <<vkeys, verr, vpc, combined, notVision>>

\* results[i].status === 'fulfilled' ? results[i].value : null, then `x?.f || []`
Field(p, f) == IF vcall[p] = "fulfilled" THEN vval[p][f] ELSE <<>>

Faces(p) == IF vcall[p] = "fulfilled" THEN vval[p].faces ELSE 0

\* a mutant of the join: Promise.all, which rejects as soon as one call rejects
JoinRejectsLikePromiseAll == \E p \in Providers : vcall[p] = "rejected"

\* Promise.allSettled never rejects
JoinRejects == FALSE

\* a mutant of the merge: Google's labels before Clarifai's
LabelsGoogleFirst ==
  Dedup(Field("google", "labels") \o Field("clarifai", "labels")
        \o Field("microsoft", "labels"))

CombinedLabels ==
  Dedup(Field("clarifai", "labels") \o Field("google", "labels")
        \o Field("microsoft", "labels"))

CombinedField(f) == Dedup(Field("google", f) \o Field("microsoft", f))

CombinedFaces == Faces("google") + Faces("microsoft")

combineVisionData ==
  [labels |-> CombinedLabels,
   objects |-> CombinedField("objects"),
   colors |-> CombinedField("colors"),
   text |-> CombinedField("text"),
   faces |-> CombinedFaces]

VisionStart ==
  /\ vpc = "start"
  /\ vpc' = "calling"
  /\ vcall' = [p \in Providers |-> "pending"]
  /\ UNCHANGED <<vkeys, verr, vval, combined, notVision>>

\* the join returns once every promise has settled; then the merge runs
VisionCombine ==
  /\ vpc = "calling"
  /\ \A p \in Providers : vcall[p] # "pending"
  /\ IF JoinRejects
       THEN vpc' = "threw" /\ UNCHANGED combined
       ELSE vpc' = "done" /\ combined' = combineVisionData
  /\ UNCHANGED <<vkeys, vcall, verr, vval, notVision>>

-----------------------------------------------------------------------------
(* EducationalArtService: the four-stage workflow of                       *)
(* analyzeArtworkEducationally on the service singleton                    *)

\* this.analysisStages.push({stage, description, apisUsed, insights, timestamp})
addAnalysisStage(stages, stage, apisUsed) ==
  Append(stages, [stage |-> stage, apisUsed |-> apisUsed])

RECURSIVE FlattenApis(_)
FlattenApis(stages) ==
  IF stages = <<>> THEN <<>>
  ELSE Head(stages).apisUsed \o FlattenApis(Tail(stages))

\* a Set filled stage by stage, api by api, then Array.from: insertion order
getUsedSources(stages) == Dedup(FlattenApis(stages))

\* what the vision providers answer in this workflow
EduResultsOf(p) ==
  CASE p = "clarifai" ->
         {EmptyResult, [EmptyResult EXCEPT !.labels = <<"bridge", "painting">>]}
    [] p = "google" ->
         {EmptyResult,
          [EmptyResult EXCEPT !.labels = <<"bridge">>, !.objects = <<"bridge">>],
          [EmptyResult EXCEPT !.labels = <<"painting">>, !.objects = <<"bridge">>,
                              !.colors = <<"rgb(100, 150, 200)">>]}
    [] p = "microsoft" ->
         {EmptyResult, [EmptyResult EXCEPT !.labels = <<"painting">>]}

\* The parsed interpretation reply, as far as the workflow reads it:
\* styleInsights is absent, [] or a non-empty array, `technique` are the
\* keywords that occur in the strings of techniqueInsights, and `words` the
\* gate keywords that occur in the reply's other string values.
InsightWords == {"brush", "color", "period", "compare"}

TechniqueWords == {"brush", "impasto"}

EduInsights ==
  [styleInsights : {"absent", "empty", "some"}, words : SUBSET InsightWords,
   technique : SUBSET TechniqueWords]

NoInsight == [styleInsights |-> "absent", words |-> {}, technique |-> {}]

\* the gate keywords found in JSON.stringify(insights).toLowerCase(): those
\* of the values, and "style" from the key name "styleInsights"
Serialized(ins) ==
  ins.words \cup ins.technique
    \cup (IF ins.styleInsights # "absent" THEN {"style"} ELSE {})

Includes(ins, kws) == Serialized(ins) \cap kws # {}

shouldRecallTexture(ins) == Includes(ins, {"brush", "texture", "paint"})

shouldRecallColor(ins, vis) == Len(vis.colors) > 0 \/ Includes(ins, {"color"})

shouldRecallHistory(ins) == Includes(ins, {"historical", "period", "movement"})

shouldRecallComparisons(ins) == Includes(ins, {"similar", "compare", "style"})

\* the calls pushed on recallPromises, in push order
RecallCalls(ins, vis) ==
  (IF shouldRecallTexture(ins) THEN <<"texture">> ELSE <<>>)
  \o (IF shouldRecallColor(ins, vis) THEN <<"color">> ELSE <<>>)
  \o (IF shouldRecallHistory(ins) THEN <<"history">> ELSE <<>>)
  \o (IF shouldRecallComparisons(ins) THEN <<"comparison">> ELSE <<>>)
  \o <<"wikipedia">>

\* what each recall call resolves with (the five recall methods return a
\* constant object and cannot reject)
RecallValue(call) ==
  CASE call = "texture" -> "textureDetails"
    [] call = "color" -> "colorTheory"
    [] call = "history" -> "historicalContext"
    [] call = "comparison" -> "examples"
    [] call = "wikipedia" -> "wikipedia"

\* results[i] || null (i counted from 1)
At(results, i) == IF i <= Len(results) THEN results[i] ELSE "null"

\* const results = await Promise.all(recallPromises); recallData = {...}
RecallBundle(calls) ==
  LET results == [i \in 1..Len(calls) |-> RecallValue(calls[i])]
  IN [textureAnalysis |-> At(results, 1), colorAnalysis |-> At(results, 2),
      historicalContext |-> At(results, 3), comparativeExamples |-> At(results, 4),
      wikipediaData |-> At(results, 5)]

EmptyBundle ==
  [textureAnalysis |-> "null", colorAnalysis |-> "null", historicalContext |-> "null",
   comparativeExamples |-> "null", wikipediaData |-> "null"]

Bump(cond) == IF cond THEN 1 ELSE 0

\* a mutant of calculateConfidence: the objects increment is forgotten
ConfidenceWithoutObjects(vis, ins, rd) ==
  LET c == 5 + Bump(Len(vis.labels) > 0) + Bump(Len(vis.colors) > 0)
             + Bump(ins.styleInsights = "some") + Bump(rd.historicalContext # "null")
  IN IF c < 10 THEN c ELSE 10

\* confidence in tenths: 0.5 is 5, each increment of 0.1 is 1, the cap 1.0 is 10
calculateConfidence(vis, ins, rd) ==
  LET c == 5 + Bump(Len(vis.labels) > 0) + Bump(Len(vis.objects) > 0)
             + Bump(Len(vis.colors) > 0) + Bump(ins.styleInsights = "some")
             + Bump(rd.historicalContext # "null")
  IN IF c < 10 THEN c ELSE 10

NoResult == [status |-> "none", confidence |-> 0, sources |-> <<>>, analysisStages |-> <<>>]

Threw == [NoResult EXCEPT !.status = "threw"]

\* analyzeArtworkEducationally: this.analysisStages = []
EduStart ==
  /\ epc = "idle"
  /\ analysisStages' = <<>>
  /\ epc' = "reading"
  /\ UNCHANGED <<eopenai, insight, erecall, eresult, visionVars, notEdu>>

\* fileToBase64 resolves; performVisualAnalysis records its first stage and
\* issues the three provider calls
EduVisionStart ==
  /\ epc = "reading"
  /\ analysisStages' = addAnalysisStage(analysisStages, "vision", <<>>)
  /\ vcall' = [p \in Providers |-> "pending"]
  /\ vpc' = "calling"
  /\ epc' = "vision"
  /\ UNCHANGED <<eopenai, insight, erecall, eresult, vkeys, verr, vval, combined, notEdu>>

\* fileToBase64 rejects (FileReader.onerror): the workflow rethrows
EduReadFails ==
  /\ epc = "reading"
  /\ epc' = "failed"
  /\ eresult' = Threw
  /\ UNCHANGED <<eopenai, analysisStages, insight, erecall, visionVars, notEdu>>

\* Promise.allSettled returns; combineVisionData; the second vision stage
EduVisionComplete ==
  /\ epc = "vision"
  /\ vpc = "calling"
  /\ \A p \in Providers : vcall[p] # "pending"
  /\ IF JoinRejects
       THEN /\ epc' = "failed" /\ vpc' = "threw" /\ eresult' = Threw
            /\ UNCHANGED <<combined, analysisStages>>
       ELSE /\ combined' = combineVisionData
            /\ vpc' = "done"
            /\ analysisStages' =
                 addAnalysisStage(analysisStages, "vision",
                                  <<"Clarifai", "Google Vision", "Microsoft Vision">>)
            /\ epc' = "interpretation"
            /\ UNCHANGED eresult
  /\ UNCHANGED <<eopenai, insight, erecall, vkeys, vcall, verr, vval, notEdu>>

\* why generateInitialInterpretation throws after its credential check:
\* fetch rejects, data.choices[0] throws on an error payload, no content,
\* JSON.parse throws, or the reply parses to null (analysis.styleInsights)
InterpretErrors == {"network", "nochoices", "nocontent", "unparseable", "nullreply"}

\* generateInitialInterpretation throws; analyzeArtworkEducationally rethrows
EduInterpretFails(e) ==
  /\ epc = "interpretation"
  /\ e \in InterpretErrors \cup {"nokey"}
  /\ (e = "nokey") = ~eopenai
  /\ analysisStages' = addAnalysisStage(analysisStages, "interpretation", <<"OpenAI">>)
  /\ epc' = "failed"
  /\ eresult' = Threw
  /\ UNCHANGED <<eopenai, insight, erecall, visionVars, notEdu>>

\* generateInitialInterpretation returns the parsed reply
EduInterpret(ins) ==
  /\ epc = "interpretation"
  /\ eopenai
  /\ analysisStages' =
       addAnalysisStage(
         addAnalysisStage(analysisStages, "interpretation", <<"OpenAI">>),
         "interpretation", <<"OpenAI">>)
  /\ insight' = ins
  /\ epc' = "recall"
  /\ UNCHANGED <<eopenai, erecall, eresult, visionVars, notEdu>>

\* performTargetedRecall: gate, dispatch, await Promise.all, fill the bundle
performTargetedRecall ==
  /\ epc = "recall"
  /\ LET calls == RecallCalls(insight, combined)
     IN erecall' = [ran |-> Elems(calls), data |-> RecallBundle(calls)]
  /\ analysisStages' =
       addAnalysisStage(
         addAnalysisStage(analysisStages, "recall", <<>>),
         "recall", <<"Google Vision", "Wikipedia", "Art APIs">>)
  /\ epc' = "synthesis"
  /\ UNCHANGED <<eopenai, insight, eresult, visionVars, notEdu>>

\* why generateFinalSynthesis throws: as for interpretation, or the reply
\* parses to a value no property can be set on
SynthesisErrors == {"network", "nochoices", "nocontent", "unparseable", "notobject"}

EduSynthesisFails(e) ==
  /\ epc = "synthesis"
  /\ e \in SynthesisErrors \cup {"nokey"}
  /\ (e = "nokey") = ~eopenai
  /\ analysisStages' = addAnalysisStage(analysisStages, "synthesis", <<"OpenAI">>)
  /\ epc' = "failed"
  /\ eresult' = Threw
  /\ UNCHANGED <<eopenai, insight, erecall, visionVars, notEdu>>

\* generateFinalSynthesis returns the parsed reply with its metadata attached
generateFinalSynthesis ==
  /\ epc = "synthesis"
  /\ eopenai
  /\ LET stages == addAnalysisStage(analysisStages, "synthesis", <<"OpenAI">>)
     IN /\ eresult' =
             [status |-> "ok",
              confidence |-> calculateConfidence(combined, insight, erecall.data),
              sources |-> getUsedSources(stages),
              analysisStages |-> stages]
        /\ analysisStages' = addAnalysisStage(stages, "synthesis", <<"OpenAI">>)
  /\ epc' = "done"
  /\ UNCHANGED <<eopenai, insight, erecall, visionVars, notEdu>>

-----------------------------------------------------------------------------
(* Two calls of analyzeArtworkEducationally that overlap on the exported    *)
(* instance (export default new EducationalArtService()). Each action is    *)
(* the code one call runs between two awaits; this.analysisStages is the    *)
(* one field of the instance. A record carries the call that pushed it in   *)
(* place of its timestamp.                                                  *)

Requests == {1, 2}

\* addAnalysisStage as called by request r
pushStage(r, stages, stage, apisUsed) ==
  Append(stages, [stage |-> stage, apisUsed |-> apisUsed, req |-> r])

\* request r runs up to its next await, pushing the stages `pushes` on the
\* way, and is then at position `to`
Segment(r, from, to, pushes) ==
  /\ rpc[r] = from
  /\ rpc' = [rpc EXCEPT ![r] = to]
  /\ LET RECURSIVE Push(_, _)
         Push(stages, todo) ==
           IF todo = <<>> THEN stages
           ELSE Push(pushStage(r, stages, Head(todo)[1], Head(todo)[2]), Tail(todo))
     IN /\ analysisStages' = Push(analysisStages, pushes)
        /\ rwritten' = [rwritten EXCEPT ![r] = Push(@, pushes)]

\* this.analysisStages = [], then await fileToBase64
OverlapStart(r) ==
  /\ rpc[r] = "idle"
  /\ rpc' = [rpc EXCEPT ![r] = "reading"]
  /\ analysisStages' = <<>>
  /\ UNCHANGED <<rwritten, rresult, notOverlap>>

\* performVisualAnalysis up to await Promise.allSettled
OverlapVisionStart(r) ==
  /\ Segment(r, "reading", "vision", << <<"vision", <<>> >> >>)
  /\ UNCHANGED <<rresult, notOverlap>>

\* the rest of performVisualAnalysis, then generateInitialInterpretation up
\* to await fetch
OverlapInterpretStart(r) ==
  /\ Segment(r, "vision", "interpretation",
             << <<"vision", <<"Clarifai", "Google Vision", "Microsoft Vision">> >>,
                <<"interpretation", <<"OpenAI">> >> >>)
  /\ UNCHANGED <<rresult, notOverlap>>

\* the interpretation call fails: the workflow rethrows
OverlapInterpretFails(r) ==
  /\ Segment(r, "interpretation", "failed", <<>>)
  /\ rresult' = [rresult EXCEPT ![r] = Threw]
  /\ UNCHANGED notOverlap

\* the rest of generateInitialInterpretation, then performTargetedRecall up
\* to await Promise.all
OverlapRecallStart(r) ==
  /\ Segment(r, "interpretation", "recall",
             << <<"interpretation", <<"OpenAI">> >>, <<"recall", <<>> >> >>)
  /\ UNCHANGED <<rresult, notOverlap>>

\* the rest of performTargetedRecall, then generateFinalSynthesis up to
\* await fetch
OverlapSynthesisStart(r) ==
  /\ Segment(r, "recall", "synthesis",
             << <<"recall", <<"Google Vision", "Wikipedia", "Art APIs">> >>,
                <<"synthesis", <<"OpenAI">> >> >>)
  /\ UNCHANGED <<rresult, notOverlap>>

\* the rest of generateFinalSynthesis: synthesis.sources and
\* synthesis.analysisStages are read from the instance, then the last stage
\* is pushed
OverlapSynthesis(r) ==
  /\ rresult' = [rresult EXCEPT ![r] =
       [status |-> "ok",
        confidence |-> 5,
        sources |-> getUsedSources(analysisStages),
        analysisStages |-> analysisStages]]
  /\ Segment(r, "synthesis", "done", << <<"synthesis", <<"OpenAI">> >> >>)
  /\ UNCHANGED notOverlap

-----------------------------------------------------------------------------
(* One request of the /api/analyze-comprehensive route followed call by     *)
(* call: the three vision calls, then the recall calls, among them the two  *)
(* museum searches findSimilarArtworks issues for each of its two terms.    *)
(* What each provider answers is fixed when the request starts; the order   *)
(* in which the pending calls complete is free.                             *)

\* the arrays given to Promise.allSettled, in argument order
JoinCalls ==
  [vision |-> <<"clarifai", "google", "microsoft">>,
   term1 |-> <<"met1", "aic1">>,
   term2 |-> <<"met2", "aic2">>]

\* the recall calls whose .then handler writes its own field of the bundle
HandlerCalls == {"colorAnalysis", "metMuseumData"}

OrderSlots == HandlerCalls \cup {"similarArtworks"}

OrderCalls ==
  UNION {Elems(JoinCalls[j]) : j \in DOMAIN JoinCalls} \cup OrderSlots

JoinOf(c) == CHOOSE j \in DOMAIN JoinCalls : c \in Elems(JoinCalls[j])

Artwork(title, artist) == [title |-> title, artist |-> artist]

\* the data call c answers with when it answers: labels for a vision call,
\* artworks for a museum search, its own name for a handler call
OrderData(c) ==
  CASE c = "clarifai" -> <<"red", "blue">>
    [] c = "google" -> <<"blue", "green">>
    [] c = "microsoft" -> <<"green", "red">>
    [] c = "met1" -> <<Artwork("Bridge", "Monet")>>
    [] c = "aic1" -> <<Artwork("Lilies", "Monet"), Artwork("Bridge", "Monet"),
                       Artwork("Poplars", "Monet")>>
    [] c = "met2" -> <<Artwork("Lilies", "Monet")>>
    [] c = "aic2" -> <<Artwork("Bridge", "Hiroshige")>>
    [] OTHER -> <<c>>

\* an entry of a Promise.allSettled array
Unsettled == [status |-> "pending", value |-> <<>>]
Settled(c, ok) ==
  IF ok THEN [status |-> "fulfilled", value |-> OrderData(c)]
  ELSE [status |-> "rejected", value |-> <<>>]

\* an array filled in the order in which the calls complete
NextFreeIndex(j, c, results) ==
  CHOOSE i \in 1..Len(results) :
    /\ results[i] = Unsettled
    /\ \A k \in 1..(i - 1) : results[k] # Unsettled

\* Promise.allSettled stores the outcome of its i-th argument at index i
ResultIndex(j, c, results) == IndexOf(JoinCalls[j], c)

\* results[i].status === 'fulfilled' ? results[i].value : null, then ?.x || []
ValueOrEmpty(result) ==
  IF result.status = "fulfilled" THEN result.value ELSE <<>>

\* combined.labels of performVisionAnalysis
mergeLabels(results) ==
  Dedup(ValueOrEmpty(results[1]) \o ValueOrEmpty(results[2])
          \o ValueOrEmpty(results[3]))

Take(s, n) == SubSeq(s, 1, IF Len(s) < n THEN Len(s) ELSE n)

WithSource(s, source) ==
  [i \in 1..Len(s) |->
     [title |-> s[i].title, artist |-> s[i].artist, source |-> source]]

\* the results of one term: the Met record if there is one, then the first
\* two Art Institute records
similarOfTerm(results) ==
  WithSource(Take(ValueOrEmpty(results[1]), 1), "Metropolitan Museum of Art")
    \o WithSource(Take(ValueOrEmpty(results[2]), 2), "Art Institute of Chicago")

\* findSimilarArtworks: allResults.flat() over the terms in order, slice(0, 6)
findSimilarArtworks(perTerm) ==
  LET RECURSIVE Flat(_)
      Flat(s) == IF s = <<>> THEN <<>> ELSE similarOfTerm(Head(s)) \o Flat(Tail(s))
  IN Take(Flat(perTerm), 6)

\* the request starts and issues the three vision calls
OrderStart ==
  /\ opc = "idle"
  /\ opc' = "vision"
  /\ ocall' = [c \in OrderCalls |->
                 IF c \in Elems(JoinCalls.vision) THEN "pending" ELSE ocall[c]]
  /\ UNCHANGED <<oresp, oresults, obundle, ocombined, notOrder>>

\* a pending call of a Promise.allSettled array completes
OrderSettle(c) ==
  /\ c \in OrderCalls \ OrderSlots
  /\ ocall[c] = "pending"
  /\ ocall' = [ocall EXCEPT ![c] = "settled"]
  /\ LET j == JoinOf(c)
     IN oresults' =
          [oresults EXCEPT ![j][ResultIndex(j, c, oresults[j])] = Settled(c, oresp[c])]
  /\ UNCHANGED <<opc, oresp, obundle, ocombined, notOrder>>

\* the vision join returns: the observation is merged and, the interpretation
\* having returned, the recall calls are issued
OrderCombine ==
  /\ opc = "vision"
  /\ \A c \in Elems(JoinCalls.vision) : ocall[c] = "settled"
  /\ ocombined' = mergeLabels(oresults.vision)
  /\ ocall' = [c \in OrderCalls |->
                 IF c \in Elems(JoinCalls.vision) THEN ocall[c] ELSE "pending"]
  /\ opc' = "recall"
  /\ UNCHANGED <<oresp, oresults, obundle, notOrder>>

\* a recall call completes: .then writes its field, .catch leaves it null
OrderHandler(c) ==
  /\ c \in HandlerCalls
  /\ ocall[c] = "pending"
  /\ ocall' = [ocall EXCEPT ![c] = "settled"]
  /\ obundle' = IF oresp[c] THEN [obundle EXCEPT ![c] = OrderData(c)] ELSE obundle
  /\ UNCHANGED <<opc, oresp, oresults, ocombined, notOrder>>

\* Promise.all over the two terms resolves; the handler of the
\* findSimilarArtworks call writes recallData.similarArtworks
OrderSimilar ==
  /\ ocall["similarArtworks"] = "pending"
  /\ \A c \in Elems(JoinCalls.term1) \cup Elems(JoinCalls.term2) : ocall[c] = "settled"
  /\ ocall' = [ocall EXCEPT !["similarArtworks"] = "settled"]
  /\ obundle' = [obundle EXCEPT !["similarArtworks"] =
                   findSimilarArtworks(<<oresults.term1, oresults.term2>>)]
  /\ UNCHANGED <<opc, oresp, oresults, ocombined, notOrder>>

\* await Promise.allSettled(recallPromises) returns the bundle
OrderJoin ==
  /\ opc = "recall"
  /\ \A c \in OrderCalls : ocall[c] = "settled"
  /\ opc' = "done"
  /\ UNCHANGED <<oresp, ocall, oresults, obundle, ocombined, notOrder>>

-----------------------------------------------------------------------------
(* The museum searches of ArtworkAnalysisService, request by request:       *)
(* searchArtSearch, searchMetMuseumArtwork and searchRijksmuseumArtwork     *)

SearchFunctions == {"artsearch", "met", "rijks"}

\* how a request ends: 2xx with items, 2xx without, 401/403, another
\* non-2xx status, or fetch rejects
Outcomes == {"items", "empty", "auth", "http", "network"}

\* the request as logged: search or detail, the position it was sent from
Request(kind, from, outcome) == [kind |-> kind, from |-> from, outcome |-> outcome]

Finish(result) ==
  /\ qpc' = "done"
  /\ qresult' = result

Goto(pc) ==
  /\ qpc' = pc
  /\ UNCHANGED qresult

\* the function is called
SearchStart(f) ==
  /\ qpc = "idle"
  /\ qfn' = f
  /\ IF f = "artsearch"
       THEN IF qkey THEN Goto("v1-key") ELSE Finish("empty")
       ELSE IF f = "met" THEN Goto("proxy") ELSE Goto("search")
  /\ UNCHANGED <<qkey, qsimple, qlog, notSearch>>

\* searchArtSearch: fetchWithAuth sends the request with the X-API-KEY
\* header and, on 401 or 403, again with the Authorization header; the loop
\* goes on to the second endpoint unless the response is 2xx with items
ArtSearchFetch(outcome) ==
  /\ qfn = "artsearch"
  /\ qpc \in {"v1-key", "v1-bearer", "v2-key", "v2-bearer"}
  /\ qlog' = Append(qlog, Request("search", qpc, outcome))
  /\ IF outcome = "auth" /\ qpc = "v1-key" THEN Goto("v1-bearer")
     ELSE IF outcome = "auth" /\ qpc = "v2-key" THEN Goto("v2-bearer")
     ELSE IF outcome = "items" THEN Finish("items")
     ELSE IF qpc \in {"v1-key", "v1-bearer"} THEN Goto("v2-key")
     ELSE Finish("empty")
  /\ UNCHANGED <<qfn, qkey, qsimple, notSearch>>

\* searchMetMuseumArtwork: the search through the proxy and, when its status
\* is not 2xx, the same search sent directly
MetFetch(outcome) ==
  /\ qfn = "met"
  /\ qpc \in {"proxy", "direct"}
  /\ qlog' = Append(qlog, Request("search", qpc, outcome))
  /\ IF outcome = "items" THEN Goto("details")
     ELSE IF outcome \in {"auth", "http"} /\ qpc = "proxy" THEN Goto("direct")
     ELSE Finish("empty")
  /\ UNCHANGED <<qfn, qkey, qsimple, notSearch>>

\* searchRijksmuseumArtwork: the search and, when it throws (non-2xx status
\* or fetch rejects), the search again with the first token of the query
RijksFetch(outcome) ==
  /\ qfn = "rijks"
  /\ qpc \in {"search", "fallback"}
  /\ qlog' = Append(qlog, Request("search", qpc, outcome))
  /\ IF outcome = "items"
       THEN Goto(IF qpc = "search" THEN "items" ELSE "fallbackitems")
     ELSE IF outcome = "empty" \/ qpc = "fallback" THEN Finish("empty")
     ELSE IF qsimple THEN Goto("fallback")
     ELSE Finish("empty")
  /\ UNCHANGED <<qfn, qkey, qsimple, notSearch>>

\* objectIDs.slice(0, 2), orderedItems.slice(0, 5) and, in the fallback,
\* orderedItems.slice(0, 3)
DetailLimit(pc) ==
  CASE pc = "details" -> 2
    [] pc = "items" -> 5
    [] pc = "fallbackitems" -> 3

\* the detail requests of the records found, joined with Promise.all: n are
\* sent and ok of them answer; a record whose request fails is dropped
SearchDetails(n, ok) ==
  /\ qpc \in {"details", "items", "fallbackitems"}
  /\ n \in 1..DetailLimit(qpc)
  /\ ok \in 0..n
  /\ qlog' = qlog \o [i \in 1..n |->
                        Request("detail", qpc, IF i <= ok THEN "items" ELSE "http")]
  /\ Finish(IF ok > 0 THEN "items" ELSE "empty")
  /\ UNCHANGED <<qfn, qkey, qsimple, notSearch>>

-----------------------------------------------------------------------------
(* searchWikipedia of ArtworkAnalysisService (apiService.ts) and of          *)
(* server.js, request by request                                            *)

\* query.replace(/[^a-zA-Z0-9\s]/g, '')
RECURSIVE removePunctuation(_)
removePunctuation(str) ==
  IF str = <<>> THEN <<>>
  ELSE (IF KeptChar(Head(str)) /\ Head(str) # "-" THEN <<Head(str)>> ELSE <<>>)
         \o removePunctuation(Tail(str))

skipTerms ==
  {<<"I", "m", "a", "g", "e", " ", "A", "n", "a", "l", "y", "s", "i", "s">>,
   <<"V", "i", "s", "u", "a", "l", " ", "A", "r", "t", "i", "s", "t">>,
   <<"U", "n", "k", "n", "o", "w", "n", " ", "A", "r", "t", "i", "s", "t">>,
   <<"A", "r", "t", "w", "o", "r", "k", " ", "A", "n", "a", "l", "y", "s", "i", "s">>,
   <<"M", "i", "x", "e", "d", " ", "S", "t", "y", "l", "e">>}

W_art == <<"A", "r", "t">>

\* the queries tried: the blocklisted placeholders, one of them with
\* punctuation, the empty query, punctuation only, a short name, longer names
WikiQueries ==
  skipTerms \cup
  {<<>>, <<"?", "!">>, <<"M", "i", "x", "e", "d", " ", "S", "t", "y", "l", "e", ".">>, <<"A", "r", "p">>,
   <<"M", "o", "n", "e", "t">>, <<"A", "r", "t", "-", "D", "e", "c", "o">>,
   <<"v", "a", "n", " ", "G", "o", "g", "h">>,
   <<"R", "e", "m", "b", "r", "a", "n", "d", "t">>}

\* how a request ends: 2xx, 404, another non-2xx status, or fetch rejects
WikiOutcomes == {"ok", "notfound", "http", "network"}

WikiReturn(result) ==
  /\ wpc' = "done"
  /\ wresult' = result

\* the function is called: the query is cleaned and, in apiService.ts, an
\* empty or blocklisted term returns null at once
WikiStart(f) ==
  /\ wpc = "idle"
  /\ wfn' = f
  /\ LET clean == IF f = "api" THEN trim(removePunctuation(wquery))
                  ELSE trim(replacePunctuation(wquery))
     IN /\ wclean' = clean
        /\ IF f = "api" /\ (clean = <<>> \/ clean \in skipTerms)
             THEN WikiReturn("null")
             ELSE wpc' = "first" /\ UNCHANGED wresult
  /\ UNCHANGED <<wquery, wlog, notWiki>>

\* the request for the cleaned term is answered
WikiFirst(outcome) ==
  /\ wpc = "first"
  /\ wlog' = Append(wlog, [term |-> wclean, outcome |-> outcome])
  /\ IF outcome = "ok" THEN WikiReturn("page")
     ELSE IF wfn = "api" /\ outcome = "notfound" /\ Len(wclean) > 3
       THEN wpc' = "fallback" /\ UNCHANGED wresult
     ELSE WikiReturn("null")
  /\ UNCHANGED <<wfn, wquery, wclean, notWiki>>

\* apiService.ts: the request for the page "Art" is answered
WikiFallback(outcome) ==
  /\ wpc = "fallback"
  /\ wlog' = Append(wlog, [term |-> W_art, outcome |-> outcome])
  /\ WikiReturn(IF outcome = "ok" THEN "page" ELSE "null")
  /\ UNCHANGED <<wfn, wquery, wclean, notWiki>>

-----------------------------------------------------------------------------
(* The comprehensive pipeline: analyzeArtworkComprehensively and the        *)
(* /api/analyze-comprehensive route, with performComprehensiveRecall        *)

\* values of a parsed reply: a string or something that is not a string
Str(chars) == [t |-> "str", s |-> chars]
Num == [t |-> "num", s |-> <<>>]

\* what a key of the reply holds: nothing (or a falsy value), a number, a
\* bare string, or an array
Absent == [t |-> "absent", v |-> <<>>]
ANumber == [t |-> "number", v |-> <<>>]
AString(chars) == [t |-> "string", v |-> <<Str(chars)>>]
AnArray(elems) == [t |-> "array", v |-> elems]

EmptyObject ==
  [kind |-> "object", styleInsights |-> Absent, themeInsights |-> Absent,
   techniqueInsights |-> Absent, mediumInsights |-> Absent]

\* JSON.parse(content) of the reply "null"
NullInsight == [EmptyObject EXCEPT !.kind = "null"]

W_bridge == <<"b", "r", "i", "d", "g", "e">>
W_painting == <<"p", "a", "i", "n", "t", "i", "n", "g">>
W_impasto == <<"T", "h", "i", "c", "k", " ", "I", "m", "p", "a", "s", "t", "o">>
W_glaze == <<"g", "l", "a", "z", "e">>
W_baroque == <<"B", "a", "r", "o", "q", "u", "e", "!">>
W_brush == <<"b", "r", "u", "s", "h">>
W_oil == <<"o", "i", "l">>

\* what the three vision providers answer in this pipeline
CompResultsOf(p) ==
  CASE p = "clarifai" -> {[EmptyResult EXCEPT !.labels = <<W_bridge, W_painting>>]}
    [] p = "google" -> {[EmptyResult EXCEPT !.labels = <<W_painting>>]}
    [] p = "microsoft" -> {EmptyResult}

\* the interpretation replies of the model: well-formed ones with and
\* without a texture keyword, and malformed ones
CompInsights ==
  { NullInsight,
    EmptyObject,
    [EmptyObject EXCEPT !.techniqueInsights = AnArray(<<Str(W_impasto)>>)],
    [EmptyObject EXCEPT !.techniqueInsights = AnArray(<<Str(W_glaze)>>),
                        !.styleInsights = AnArray(<<Str(W_baroque)>>)],
    [EmptyObject EXCEPT !.techniqueInsights = AString(W_brush)],
    [EmptyObject EXCEPT !.techniqueInsights = AnArray(<<Str(W_oil), Str(W_glaze), Num>>)],
    [EmptyObject EXCEPT !.styleInsights = ANumber],
    [EmptyObject EXCEPT !.themeInsights = AnArray(<<Num>>)] }

\* a TypeError
TypeError == [threw |-> TRUE, terms |-> <<>>]

\* value.slice(0, n), spread: the first n elements of an array, the first n
\* characters of a string
Sliced(value, n) ==
  CASE value.t = "array" -> SubSeq(value.v, 1, Min(n, Len(value.v)))
    [] value.t = "string" ->
         [i \in 1..Min(n, Len(value.v[1].s)) |-> Str(<<value.v[1].s[i]>>)]
    [] OTHER -> <<>>

artTerms ==
  << <<"a", "r", "t">>,
     <<"p", "a", "i", "n", "t", "i", "n", "g">>,
     <<"a", "r", "t", "w", "o", "r", "k">>,
     <<"a", "r", "t", "i", "s", "t">>,
     <<"m", "u", "s", "e", "u", "m">>,
     <<"g", "a", "l", "l", "e", "r", "y">>,
     <<"a", "r", "t", "i", "s", "t", "i", "c">>,
     <<"v", "i", "s", "u", "a", "l">> >>

RECURSIVE FilterLong(_)
FilterLong(terms) ==
  IF terms = <<>> THEN <<>>
  ELSE IF Len(Head(terms)) > 2 THEN <<Head(terms)>> \o FilterLong(Tail(terms))
  ELSE FilterLong(Tail(terms))

extractComprehensiveSearchTerms(labels, insights) ==
  IF insights.kind = "null" THEN TypeError
  ELSE
    LET keys == <<insights.styleInsights, insights.themeInsights,
                  insights.techniqueInsights, insights.mediumInsights>>
        terms == [i \in 1..Len(labels) |-> Str(labels[i])]
                 \o Sliced(keys[1], 3) \o Sliced(keys[2], 3)
                 \o Sliced(keys[3], 2) \o Sliced(keys[4], 2)
                 \o [i \in 1..Len(artTerms) |-> Str(artTerms[i])]
        unique == Dedup(terms)
    IN IF \E i \in 1..4 : keys[i].t = "number" THEN TypeError
       ELSE IF \E i \in 1..Len(unique) : unique[i].t # "str" THEN TypeError
       ELSE LET cleaned == [i \in 1..Len(unique) |-> trim(replacePunctuation(unique[i].s))]
                long == FilterLong(cleaned)
            IN [threw |-> FALSE, terms |-> SubSeq(long, 1, Min(5, Len(long)))]

TextureKeywords == {W_brush, <<"t", "e", "x", "t", "u", "r", "e">>, W_impasto}

\* Array.prototype.some over the elements from position i on
RECURSIVE SomeTexture(_, _)
SomeTexture(elems, i) ==
  IF i > Len(elems) THEN "no"
  ELSE IF elems[i].t # "str" THEN "throws"
  ELSE IF \E kw \in TextureKeywords : includes(toLowerCase(elems[i].s), kw) THEN "yes"
  ELSE SomeTexture(elems, i + 1)

\* initialInsights.techniqueInsights && initialInsights.techniqueInsights.some(...)
TextureGate(insights) ==
  CASE insights.kind = "null" -> "throws"
    [] insights.techniqueInsights.t = "absent" -> "no"
    [] insights.techniqueInsights.t = "array" -> SomeTexture(insights.techniqueInsights.v, 1)
    [] OTHER -> "throws"

\* the slots a call is dispatched for, in dispatch order
SlotOrder ==
  <<"colorAnalysis", "wikipediaData", "metMuseumData", "harvardData",
    "artInstituteData", "artSearchData", "textureAnalysis", "emotionalAnalysis",
    "learningResources", "similarArtworks">>

Slots == Elems(SlotOrder)

\* the fields of the bundle; six of them are never written
BundleFields ==
  Slots \cup {"historicalContext", "culturalContext", "comparativeExamples",
              "artisticMovements", "discussionPrompts", "visualElements"}

\* a dispatcher that asks every collection whenever there is a search term
SlotDispatchedWhateverKeys(s, terms, gate, keys) ==
  CASE s \in {"colorAnalysis", "emotionalAnalysis", "learningResources"} -> TRUE
    [] s = "textureAnalysis" -> gate = "yes"
    [] OTHER -> Len(terms) > 0

\* the condition under which the call of slot s is pushed on recallPromises
SlotDispatched(s, terms, gate, keys) ==
  CASE s \in {"colorAnalysis", "emotionalAnalysis", "learningResources"} -> TRUE
    [] s \in {"wikipediaData", "metMuseumData", "artInstituteData", "similarArtworks"} ->
         Len(terms) > 0
    [] s = "harvardData" -> keys.harvard /\ Len(terms) > 0
    [] s = "artSearchData" -> keys.artsearch /\ Len(terms) > 0
    [] s = "textureAnalysis" -> gate = "yes"

NoCompResult == [status |-> "none", stage |-> "none"]

CompThrew(stage) == [status |-> "threw", stage |-> stage]

\* the request arrives; the three provider calls are issued
CompStart ==
  /\ cpc = "idle"
  /\ cpc' = "vision"
  /\ vpc' = "calling"
  /\ vcall' = [p \in Providers |-> "pending"]
  /\ UNCHANGED <<ckeys, cinsight, cslots, recallData, cresult>>
  /\ UNCHANGED <<vkeys, verr, vval, combined, notComp>>

\* Promise.allSettled returns; the aggregate is built
CompVisionComplete ==
  /\ cpc = "vision"
  /\ vpc = "calling"
  /\ \A p \in Providers : vcall[p] # "pending"
  /\ IF JoinRejects
       THEN /\ cpc' = "failed" /\ vpc' = "threw" /\ cresult' = CompThrew("vision")
            /\ UNCHANGED combined
       ELSE /\ combined' = combineVisionData
            /\ vpc' = "done"
            /\ cpc' = "interpretation"
            /\ UNCHANGED cresult
  /\ UNCHANGED <<ckeys, cinsight, cslots, recallData>>
  /\ UNCHANGED <<vkeys, vcall, verr, vval, notComp>>

\* why generateInitialInterpretation throws: no credential, fetch rejects,
\* a non-2xx status, no content in the reply, JSON.parse throws
CompInterpretErrors == {"nokey", "network", "http", "nocontent", "unparseable"}

\* generateInitialInterpretation throws: nothing catches it before the
\* caller of analyzeArtworkComprehensively (the route answers 500)
CompInterpretFails(e) ==
  /\ cpc = "interpretation"
  /\ e \in CompInterpretErrors
  /\ (e = "nokey") = ~ckeys.openai
  /\ cpc' = "failed"
  /\ cresult' = CompThrew("interpretation")
  /\ UNCHANGED <<ckeys, cinsight, cslots, recallData, visionVars, notComp>>

\* generateInitialInterpretation returns JSON.parse(content)
CompInterpret(ins) ==
  /\ cpc = "interpretation"
  /\ ckeys.openai
  /\ cinsight' = ins
  /\ cpc' = "recall"
  /\ UNCHANGED <<ckeys, cslots, recallData, cresult, visionVars, notComp>>

\* performComprehensiveRecall up to its await: search terms, then the calls
\* in dispatch order; a TypeError leaves the calls issued so far in flight
performComprehensiveRecall ==
  /\ cpc = "recall"
  /\ LET extracted == extractComprehensiveSearchTerms(combined.labels, cinsight)
         gate == TextureGate(cinsight)
         issued == {s \in Slots : SlotDispatched(s, extracted.terms, gate, ckeys)}
         early == {SlotOrder[i] : i \in 1..(IndexOf(SlotOrder, "textureAnalysis") - 1)}
     IN IF extracted.threw
          THEN /\ cpc' = "failed"
               /\ cresult' = CompThrew("recall")
               /\ UNCHANGED cslots
          ELSE IF gate = "throws"
          THEN /\ cpc' = "failed"
               /\ cresult' = CompThrew("recall")
               /\ cslots' = [s \in Slots |->
                               IF s \in issued \cap early THEN "pending" ELSE "notrun"]
          ELSE /\ cpc' = "recalling"
               /\ cslots' = [s \in Slots |-> IF s \in issued THEN "pending" ELSE "notrun"]
               /\ UNCHANGED cresult
  /\ UNCHANGED <<ckeys, cinsight, recallData, visionVars, notComp>>

\* the call of slot s resolves with data: its .then handler fills the slot
CompSlotFulfils(s) ==
  /\ cslots[s] = "pending"
  /\ cslots' = [cslots EXCEPT ![s] = "fulfilled"]
  /\ recallData' = [recallData EXCEPT ![s] = s]
  /\ UNCHANGED <<cpc, ckeys, cinsight, cresult, visionVars, notComp>>

\* the call of slot s fails: it rejects and .catch logs a warning, or it
\* resolves with null (no match, non-2xx status) and the slot is set to null
CompSlotFails(s) ==
  /\ cslots[s] = "pending"
  /\ Cardinality({x \in Slots : cslots[x] = "failed"}) < MaxFailures
  /\ cslots' = [cslots EXCEPT ![s] = "failed"]
  /\ UNCHANGED <<cpc, ckeys, cinsight, recallData, cresult, visionVars, notComp>>

\* a join that returns as soon as one call has settled
RecallSettledOnFirst == \E s \in Slots : cslots[s] \in {"fulfilled", "failed"}

\* Promise.allSettled(recallPromises) settles: no dispatched call is pending
RecallSettled == \A s \in Slots : cslots[s] # "pending"

\* await Promise.allSettled(recallPromises) returns; recallData is returned
CompRecallJoin ==
  /\ cpc = "recalling"
  /\ RecallSettled
  /\ cpc' = "synthesis"
  /\ UNCHANGED <<ckeys, cinsight, cslots, recallData, cresult, visionVars, notComp>>

CompSynthesisErrors == {"network", "http", "nocontent", "unparseable"}

\* generateFinalSynthesis throws
CompSynthesisFails(e) ==
  /\ cpc = "synthesis"
  /\ e \in CompSynthesisErrors
  /\ cpc' = "failed"
  /\ cresult' = CompThrew("synthesis")
  /\ UNCHANGED <<ckeys, cinsight, cslots, recallData, visionVars, notComp>>

\* generateFinalSynthesis returns the parsed reply
CompSynthesis ==
  /\ cpc = "synthesis"
  /\ cpc' = "done"
  /\ cresult' = [status |-> "ok", stage |-> "synthesis"]
  /\ UNCHANGED <<ckeys, cinsight, cslots, recallData, visionVars, notComp>>

-----------------------------------------------------------------------------
(* extractComprehensiveSearchTerms applied to lists of labels *)

\* the labels tried: plain, with punctuation at the end or inside, too short
\* once cleaned, and one of the fixed art terms with punctuation
TermLabels ==
  {W_bridge, <<"b", "r", "i", "d", "g", "e", "!">>,
   <<"o", "i", "l", ",", " ", "c", "a", "n", "v", "a", "s">>, <<"a", "!">>, <<" ", "a", "r", "t", ".">>}

\* the function is applied to the labels and the insight
ExtractTerms ==
  /\ tpc = "idle"
  /\ tterms' = extractComprehensiveSearchTerms(tlabels, tinsight)
  /\ tpc' = "done"
  /\ UNCHANGED <<tlabels, tinsight, notTerms>>

-----------------------------------------------------------------------------
(* findSimilarArtworks of server.js applied to what the museums answer *)

\* the records a museum search can find
Artworks ==
  {Artwork("Bridge", "Monet"), Artwork("Lilies", "Monet"), Artwork("Bridge", "Hiroshige")}

Rejected == [status |-> "rejected", value |-> <<>>]
Fulfilled(value) == [status |-> "fulfilled", value |-> value]

\* searchMetMuseum rejects, or resolves with null or with one record
MetAnswers == {Rejected, Fulfilled(<<>>)} \cup {Fulfilled(<<a>>) : a \in Artworks}

\* searchArtInstitute rejects, or resolves with up to MaxFound records
ArtInstituteAnswers ==
  {Rejected} \cup {Fulfilled(found) : found \in SeqsUpTo(Artworks, MaxFound)}

TermAnswers == {<<met, aic>> : met \in MetAnswers, aic \in ArtInstituteAnswers}

\* searchTerms.slice(0, 2)
TermsSearched(n) == IF n < 2 THEN n ELSE 2

\* the function is applied: both museums are asked for each of the first two
\* terms and the answers are merged
SimilarSearch ==
  /\ mpc = "idle"
  /\ msearched' = TermsSearched(mterms)
  /\ \E found \in [1..TermsSearched(mterms) -> TermAnswers] :
       /\ mfound' = found
       /\ msimilar' = findSimilarArtworks(found)
  /\ mpc' = "done"
  /\ UNCHANGED <<mterms, notSimilar>>

-----------------------------------------------------------------------------
(* Parsing the reply of a text-generation call: generateInitialInterpretation *)
(* and generateFinalSynthesis of the comprehensive service, and             *)
(* analyzeWithOpenAI of ArtworkAnalysisService                              *)

\* A reply is a sequence of these: the braces, the member name
\* "artisticInsights": (written a:), the array [], a character of prose, a
\* space.
ReplyChars == {"{", "}", "a:", "[]", "x", " "}

\* whitespace between the tokens of a JSON text is insignificant
RECURSIVE Compact(_)
Compact(str) ==
  IF str = <<>> THEN <<>>
  ELSE (IF Head(str) \in Whitespace THEN <<>> ELSE <<Head(str)>>) \o Compact(Tail(str))

SyntaxError == [ok |-> FALSE, kind |-> "none", artisticInsights |-> "none"]

\* the JSON values of the model: [] and an object with no member or with the
\* member artisticInsights holding a value
RECURSIVE ParseValue(_)
ParseValue(t) ==
  IF t = <<"[]">> THEN [ok |-> TRUE, kind |-> "array", artisticInsights |-> "none"]
  ELSE IF Len(t) >= 2 /\ t[1] = "{" /\ t[Len(t)] = "}"
    THEN LET inner == SubSeq(t, 2, Len(t) - 1)
         IN IF inner = <<>>
              THEN [ok |-> TRUE, kind |-> "object", artisticInsights |-> "none"]
            ELSE IF inner[1] = "a:" /\ ParseValue(Tail(inner)).ok
              THEN [ok |-> TRUE, kind |-> "object",
                    artisticInsights |-> ParseValue(Tail(inner)).kind]
            ELSE SyntaxError
  ELSE SyntaxError

\* JSON.parse
JSONparse(str) == ParseValue(Compact(str))

\* String.prototype.lastIndexOf (1-based), 0 if none
LastIndexOf(s, x) ==
  IF x \in Elems(s)
    THEN CHOOSE i \in 1..Len(s) : s[i] = x /\ \A j \in (i + 1)..Len(s) : s[j] # x
    ELSE 0

\* content.trim(), cut down to the text from the first { to the last }
extractBraces(content) ==
  LET cleanContent == trim(content)
      firstBrace == IndexOf(cleanContent, "{")
      lastBrace == LastIndexOf(cleanContent, "}")
  IN IF firstBrace # 0 /\ lastBrace # 0 /\ lastBrace > firstBrace
       THEN SubSeq(cleanContent, firstBrace, lastBrace)
       ELSE cleanContent

NotParsed == [parsed |-> FALSE, status |-> "none"]

ParseFunctions == {"generateInitialInterpretation", "generateFinalSynthesis", "analyzeWithOpenAI"}

\* the comprehensive service: return JSON.parse(content)
parseWhole(content) ==
  IF content = <<>> THEN [parsed |-> FALSE, status |-> "threw"]
  ELSE IF JSONparse(content).ok THEN [parsed |-> TRUE, status |-> "returned"]
  ELSE [parsed |-> FALSE, status |-> "threw"]

\* analyzeWithOpenAI: the braces are extracted, the text is parsed and the
\* artisticInsights array is required; a failure returns the fallback object
parseExtracted(content) ==
  IF content = <<>> THEN [parsed |-> FALSE, status |-> "threw"]
  ELSE LET analysis == JSONparse(extractBraces(content))
       IN IF analysis.ok /\ analysis.artisticInsights = "array"
            THEN [parsed |-> TRUE, status |-> "returned"]
            ELSE [parsed |-> analysis.ok, status |-> "fallback"]

\* function f receives the reply and parses it
ParseReply(f) ==
  /\ ppc = "idle"
  /\ pfn' = f
  /\ presult' = IF f = "analyzeWithOpenAI" THEN parseExtracted(preply)
                ELSE parseWhole(preply)
  /\ ppc' = "done"
  /\ UNCHANGED <<preply, notParse>>

-----------------------------------------------------------------------------
(* extractColorsFromImage of ArtworkAnalysisService. The pixels of the      *)
(* model are the sampled ones (every tenth pixel of the buffer). An image   *)
(* is a few pixels drawn from SamplePixels followed by a crowd of pixels    *)
(* that each fall in a bucket of their own. Percentages are kept in         *)
(* hundredths and computed exactly.                                         *)

Pixel(r, g, b, a) == [r |-> r, g |-> g, b |-> b, a |-> a]

\* pure red, a near white, an orange at the alpha threshold, and a red just
\* below the alpha threshold
SamplePixels ==
  {Pixel(255, 0, 0, 255), Pixel(250, 250, 250, 200), Pixel(230, 100, 30, 128),
   Pixel(255, 0, 0, 127)}

\* the sizes of the crowd tried: they put colorMap.size around 100 and 300
CrowdSizes == {0, 1, 98, 99, 297, 298}

\* Math.round(v / 32) * 32
Quantize(v) == ((2 * v + 32) \div 64) * 32

Max3(a, b, c) == IF a >= b /\ a >= c THEN a ELSE IF b >= c THEN b ELSE c
Min3(a, b, c) == IF a <= b /\ a <= c THEN a ELSE IF b <= c THEN b ELSE c

\* Math.round(num / den) for num >= 0 and den > 0
RoundDiv(num, den) == (2 * num + den) \div (2 * den)

\* rgbToHsl, with Math.round(h * 360), Math.round(s * 100), Math.round(l * 100)
rgbToHsl(r, g, b) ==
  LET max == Max3(r, g, b)
      min == Min3(r, g, b)
      d == max - min
      l == RoundDiv(100 * (max + min), 510)
  IN IF max = min THEN [h |-> 0, s |-> 0, l |-> l]
     ELSE [h |-> IF max = r
                   THEN RoundDiv(60 * (g - b) + (IF g < b THEN 360 * d ELSE 0), d)
                 ELSE IF max = g THEN RoundDiv(60 * (b - r) + 120 * d, d)
                 ELSE RoundDiv(60 * (r - g) + 240 * d, d),
           s |-> IF max + min > 255 THEN RoundDiv(100 * d, 510 - max - min)
                 ELSE RoundDiv(100 * d, max + min),
           l |-> l]

\* rgbToHex: the six hexadecimal digits after the leading one, as a number
rgbToHex(r, g, b) == (r * 65536 + g * 256 + b) % 16777216

getColorName(r, g, b) ==
  LET hsl == rgbToHsl(r, g, b)
  IN IF hsl.s < 20
       THEN (IF hsl.l > 80 THEN "White" ELSE IF hsl.l < 20 THEN "Black" ELSE "Gray")
     ELSE IF hsl.h < 15 \/ hsl.h > 345 THEN "Red"
     ELSE IF hsl.h < 45 THEN "Orange"
     ELSE IF hsl.h < 75 THEN "Yellow"
     ELSE IF hsl.h < 150 THEN "Green"
     ELSE IF hsl.h < 210 THEN "Cyan"
     ELSE IF hsl.h < 270 THEN "Blue"
     ELSE IF hsl.h < 330 THEN "Purple"
     ELSE "Pink"

ColorSample(hex, r, g, b, h, s, l, percentage, name) ==
  [hex |-> hex, rgb |-> [r |-> r, g |-> g, b |-> b],
   hsl |-> [h |-> h, s |-> s, l |-> l], percentage |-> percentage, name |-> name]

\* a palette with nothing in it
NoColors == <<>>

getDefaultColors ==
  << ColorSample(rgbToHex(255, 107, 107), 255, 107, 107, 0, 100, 71, 2500, "Coral Red"),
     ColorSample(rgbToHex(78, 205, 196), 78, 205, 196, 175, 60, 55, 2000, "Turquoise"),
     ColorSample(rgbToHex(69, 183, 209), 69, 183, 209, 195, 60, 55, 1800, "Sky Blue"),
     ColorSample(rgbToHex(150, 206, 180), 150, 206, 180, 150, 40, 70, 1500, "Mint Green"),
     ColorSample(rgbToHex(255, 234, 167), 255, 234, 167, 45, 100, 83, 1200, "Soft Yellow"),
     ColorSample(rgbToHex(221, 160, 221), 221, 160, 221, 300, 50, 75, 1000, "Plum") >>

\* the bucket of a pixel
Bucket(p) == [r |-> Quantize(p.r), g |-> Quantize(p.g), b |-> Quantize(p.b)]

\* the pixels that are counted: if (a < 128) continue
RECURSIVE Opaque(_)
Opaque(pixels) ==
  IF pixels = <<>> THEN <<>>
  ELSE (IF Head(pixels).a < 128 THEN <<>> ELSE <<Head(pixels)>>) \o Opaque(Tail(pixels))

\* colorMap: the buckets in the order of their first pixel, each with its count
colorMap(pixels) ==
  LET buckets == [i \in 1..Len(Opaque(pixels)) |-> Bucket(Opaque(pixels)[i])]
      keys == Dedup(buckets)
  IN [i \in 1..Len(keys) |->
        [rgb |-> keys[i],
         count |-> Cardinality({k \in 1..Len(buckets) : buckets[k] = keys[i]})]]

\* the bucket of the j-th pixel of the crowd
CrowdBucket(j) ==
  [r |-> 32 * ((j - 1) \div 81), g |-> 32 * (((j - 1) \div 9) % 9), b |-> 32 * ((j - 1) % 9)]

\* percentage = (count / totalPixels) * 100 with totalPixels = colorMap.size,
\* reported as Math.round(percentage * 100) / 100
Percentage(count, totalPixels) == RoundDiv(count * 10000, totalPixels)

\* if (percentage > 1) colors.push(...)
Entries(map, totalPixels) ==
  LET RECURSIVE Push(_)
      Push(i) ==
        IF i > Len(map) THEN <<>>
        ELSE (IF map[i].count * 100 > totalPixels
                THEN <<ColorSample(rgbToHex(map[i].rgb.r, map[i].rgb.g, map[i].rgb.b),
                                   map[i].rgb.r, map[i].rgb.g, map[i].rgb.b,
                                   rgbToHsl(map[i].rgb.r, map[i].rgb.g, map[i].rgb.b).h,
                                   rgbToHsl(map[i].rgb.r, map[i].rgb.g, map[i].rgb.b).s,
                                   rgbToHsl(map[i].rgb.r, map[i].rgb.g, map[i].rgb.b).l,
                                   Percentage(map[i].count, totalPixels),
                                   getColorName(map[i].rgb.r, map[i].rgb.g, map[i].rgb.b))>>
                ELSE <<>>) \o Push(i + 1)
  IN Push(1)

\* colors.sort((a, b) => b.percentage - a.percentage): stable, descending
RECURSIVE sortByPercentage(_)
sortByPercentage(colors) ==
  IF colors = <<>> THEN <<>>
  ELSE LET rest == sortByPercentage(SubSeq(colors, 1, Len(colors) - 1))
           last == colors[Len(colors)]
           before == Cardinality({i \in 1..Len(rest) : rest[i].percentage >= last.percentage})
       IN SubSeq(rest, 1, before) \o <<last>> \o SubSeq(rest, before + 1, Len(rest))

\* the palette of a decoded image. The buckets of the crowd all have count 1
\* and come last in colorMap, so at most six of them can reach the result.
extractColors(pixels, crowd) ==
  LET map == colorMap(pixels)
      totalPixels == Len(map) + crowd
      shown == IF crowd < 6 THEN crowd ELSE 6
      all == map \o [j \in 1..shown |-> [rgb |-> CrowdBucket(j), count |-> 1]]
  IN Take(sortByPercentage(Entries(all, totalPixels)), 6)

\* img.onerror
ImageError ==
  /\ xpc = "idle"
  /\ xload = "error"
  /\ xpalette' = getDefaultColors
  /\ xpc' = "done"
  /\ UNCHANGED <<xload, xpixels, xcrowd, notPalette>>

\* img.onload when canvas.getContext('2d') is null
NoContext ==
  /\ xpc = "idle"
  /\ xload = "nocontext"
  /\ xpalette' = getDefaultColors
  /\ xpc' = "done"
  /\ UNCHANGED <<xload, xpixels, xcrowd, notPalette>>

\* img.onload: the pixels are counted, the palette is built
ImageLoaded ==
  /\ xpc = "idle"
  /\ xload = "decoded"
  /\ xpalette' = extractColors(xpixels, xcrowd)
  /\ xpc' = "done"
  /\ UNCHANGED <<xload, xpixels, xcrowd, notPalette>>

-----------------------------------------------------------------------------
(* analyzeColorHarmony of ArtworkAnalysisService (apiService.ts), given      *)
(* palette entries, and of server.js, given colour strings                   *)

\* a palette entry, of which analyzeColorHarmony reads hsl.h only
PaletteColor(h) == [hsl |-> [h |-> h]]

SampleHues == {0, 10, 20, 25, 30, 60, 120, 150, 180, 200, 359}

PaletteColors == {PaletteColor(h) : h \in SampleHues}

\* a colour string of the server: "rgb(r, g, b)", or a string the pattern
\* /rgb\((\d+),\s*(\d+),\s*(\d+)\)/ does not match
RgbString(r, g, b) == [matches |-> TRUE, r |-> r, g |-> g, b |-> b]
OtherString == [matches |-> FALSE, r |-> 0, g |-> 0, b |-> 0]

\* strings of hue 0, 20, 30, 60, 120, 150, 180, 240 and 300, and a string
\* that is no rgb(...) string
ColorStrings ==
  {RgbString(255, 0, 0), RgbString(255, 85, 0), RgbString(255, 128, 0),
   RgbString(255, 255, 0), RgbString(0, 255, 0), RgbString(0, 255, 128),
   RgbString(0, 255, 255), RgbString(0, 0, 255), RgbString(255, 0, 255),
   OtherString}

MaxOf(hues) == CHOOSE h \in Elems(hues) : \A k \in Elems(hues) : k <= h
MinOf(hues) == CHOOSE h \in Elems(hues) : \A k \in Elems(hues) : h <= k

\* Math.max(...hues) - Math.min(...hues) of a sequence that is not empty
HueRange(hues) == MaxOf(hues) - MinOf(hues)

Monochromatic == "Monochromatic harmony - creates a cohesive, unified feeling"
Analogous == "Analogous harmony - colors are adjacent on the color wheel, creating harmony"
Complementary == "Complementary harmony - contrasting colors create visual tension and energy"
Triadic == "Triadic harmony - three colors evenly spaced on the color wheel"
Complex == "Complex color relationship - multiple harmonies working together"

ServerMonochromaticFew == "Monochromatic harmony"
ServerMonochromatic == "Monochromatic harmony - creates unity and cohesion"
ServerAnalogous == "Analogous harmony - colors work together harmoniously"
ServerComplementary == "Complementary harmony - creates dynamic contrast"

\* the chain of comparisons on colors[0].hsl.h, the value the method also
\* computes, in place of the hue range
analyzeByDominantHue(colors) ==
  LET dominantHue == IF colors = <<>> THEN 0 ELSE colors[1].hsl.h
  IN IF dominantHue < 30 THEN Monochromatic
     ELSE IF dominantHue < 60 THEN Analogous
     ELSE IF dominantHue > 120 /\ dominantHue < 180 THEN Complementary
     ELSE IF dominantHue > 180 THEN Triadic
     ELSE Complex

\* ArtworkAnalysisService.analyzeColorHarmony. Of no colours Math.max() is
\* -Infinity and Math.min() is Infinity, the hue range is -Infinity and the
\* first comparison holds.
analyzeColorHarmony(colors) ==
  IF colors = <<>> THEN Monochromatic
  ELSE LET hueRange == HueRange([i \in 1..Len(colors) |-> colors[i].hsl.h])
       IN IF hueRange < 30 THEN Monochromatic
          ELSE IF hueRange < 60 THEN Analogous
          ELSE IF hueRange > 120 /\ hueRange < 180 THEN Complementary
          ELSE IF hueRange > 180 THEN Triadic
          ELSE Complex

\* the hue the server gives a colour string
ServerHue(color) ==
  IF ~color.matches THEN 0 ELSE rgbToHsl(color.r, color.g, color.b).h

ServerHues(colors) == [i \in 1..Len(colors) |-> ServerHue(colors[i])]

\* analyzeColorHarmony of server.js from the line that computes hueRange
serverHarmonyOfHues(hues) ==
  LET hueRange == HueRange(hues)
  IN IF hueRange < 30 THEN ServerMonochromatic
     ELSE IF hueRange < 60 THEN ServerAnalogous
     ELSE IF hueRange > 120 /\ hueRange < 180 THEN ServerComplementary
     ELSE Complex

\* analyzeColorHarmony of server.js
serverAnalyzeColorHarmony(colors) ==
  IF Len(colors) < 2 THEN ServerMonochromaticFew
  ELSE serverHarmonyOfHues(ServerHues(colors))

\* the hues analyzeColorHarmony is about, whichever file it is in
HuesOf(fn, colors) ==
  IF fn = "server" THEN ServerHues(colors)
  ELSE [i \in 1..Len(colors) |-> colors[i].hsl.h]

\* the class a returned sentence names
HarmonyClass(text) ==
  IF text \in {Monochromatic, ServerMonochromaticFew, ServerMonochromatic} THEN "monochromatic"
  ELSE IF text \in {Analogous, ServerAnalogous} THEN "analogous"
  ELSE IF text \in {Complementary, ServerComplementary} THEN "complementary"
  ELSE IF text = Triadic THEN "triadic"
  ELSE IF text = Complex THEN "complex"
  ELSE "none"

HarmonyClasses == {"monochromatic", "analogous", "complementary", "triadic", "complex"}

\* this.analyzeColorHarmony(colors) of analyzeArtwork
HarmonyOfPalette ==
  /\ hpc = "idle"
  /\ hfn = "apiService"
  /\ hharmony' = analyzeColorHarmony(hcolors)
  /\ hpc' = "done"
  /\ UNCHANGED <<hfn, hcolors, notHarmony>>

\* analyzeColorHarmony(colors) of the server
HarmonyOfStrings ==
  /\ hpc = "idle"
  /\ hfn = "server"
  /\ hharmony' = serverAnalyzeColorHarmony(hcolors)
  /\ hpc' = "done"
  /\ UNCHANGED <<hfn, hcolors, notHarmony>>

-----------------------------------------------------------------------------
(* ArtworkAnalysisScreen of the demo: its effect on [imageUri, imageFile],   *)
(* the call of apiService.analyzeArtwork it awaits, and the back button.     *)
(* An action is the code that runs between two awaits together with the      *)
(* render React makes of the state it set.                                   *)

NullInfo == [null |-> TRUE, analysis |-> ""]
NullError == [null |-> TRUE, message |-> ""]

ImageUris == {"absent", "blob:a", "blob:b"}
ImageFiles == {"absent", "a.jpg", "b.jpg"}

\* a value of location.state is truthy when it is there
Truthy(v) == v # "absent"

DefaultAnalysis ==
  "Take your time to observe the artwork carefully, noticing the details, colors, and composition."

\* analysis.description of a resolved call
Descriptions == {"", "An oil painting."}

\* what a rejected call throws: an Error with its message, or a value that is
\* no Error (the ProgressEvent fileToBase64 rejects with)
Thrown ==
  {[isError |-> TRUE, message |-> "No free APIs available. Please check your internet connection."],
   [isError |-> TRUE, message |-> "All APIs failed. Please check your API keys and try again."],
   [isError |-> FALSE, message |-> ""]}

\* err instanceof Error ? err.message : 'Failed to analyze artwork. Please try again.'
ErrorMessage(err) ==
  IF err.isError THEN err.message ELSE "Failed to analyze artwork. Please try again."

\* the guard is left out: the effect never returns early
NeverAnalyzed == FALSE

\* `if (hasAnalyzed.current) return`
AlreadyAnalyzed == hasAnalyzed

\* the effect returns at its guard
EffectSkips ==
  /\ screen = "mounted"
  /\ effectDue
  /\ AlreadyAnalyzed
  /\ effectDue' = FALSE
  /\ lastEffect' = "skipped"
  /\ UNCHANGED <<screen, imageUri, imageFile, loading, artworkInfo, error, hasAnalyzed,
                 pending, invoked, changes, notScreen>>

\* the effect calls analyzeArtwork(), which runs up to its await; without an
\* image file it throws and the catch and finally blocks run at once
EffectAnalyzes ==
  /\ screen = "mounted"
  /\ effectDue
  /\ ~AlreadyAnalyzed
  /\ Truthy(imageUri) /\ Truthy(imageFile)
  /\ hasAnalyzed' = TRUE
  /\ IF ~Truthy(imageFile)
       THEN /\ error' = [null |-> FALSE, message |-> "No image file provided for analysis"]
            /\ artworkInfo' = NullInfo
            /\ loading' = FALSE
            /\ UNCHANGED <<pending, invoked>>
       ELSE /\ loading' = TRUE
            /\ error' = NullError
            /\ pending' = TRUE
            /\ invoked' = invoked + 1
            /\ UNCHANGED artworkInfo
  /\ effectDue' = FALSE
  /\ lastEffect' = "analyzed"
  /\ UNCHANGED <<screen, imageUri, imageFile, changes, notScreen>>

\* without an image URI the effect navigates home
EffectNavigates ==
  /\ screen = "mounted"
  /\ effectDue
  /\ ~AlreadyAnalyzed
  /\ ~(Truthy(imageUri) /\ Truthy(imageFile))
  /\ ~Truthy(imageUri)
  /\ screen' = "home"
  /\ effectDue' = FALSE
  /\ lastEffect' = "navigated"
  /\ UNCHANGED <<imageUri, imageFile, loading, artworkInfo, error, hasAnalyzed,
                 pending, invoked, changes, notScreen>>

\* with an image URI and no image file the effect does nothing
EffectIdles ==
  /\ screen = "mounted"
  /\ effectDue
  /\ ~AlreadyAnalyzed
  /\ ~(Truthy(imageUri) /\ Truthy(imageFile))
  /\ Truthy(imageUri)
  /\ effectDue' = FALSE
  /\ lastEffect' = "nothing"
  /\ UNCHANGED <<screen, imageUri, imageFile, loading, artworkInfo, error, hasAnalyzed,
                 pending, invoked, changes, notScreen>>

\* the location state changes while the screen is mounted; the screen renders
\* again and the effect is due, its dependencies having changed
LocationChanges(uri, file) ==
  /\ screen = "mounted"
  /\ changes < MaxChanges
  /\ <<uri, file>> # <<imageUri, imageFile>>
  /\ imageUri' = uri
  /\ imageFile' = file
  /\ changes' = changes + 1
  /\ effectDue' = TRUE
  /\ UNCHANGED <<screen, loading, artworkInfo, error, hasAnalyzed, lastEffect,
                 pending, invoked, notScreen>>

\* the awaited call resolves: setArtworkInfo, then setLoading(false)
AnalysisResolves(description) ==
  /\ pending
  /\ pending' = FALSE
  /\ artworkInfo' = [null |-> FALSE,
                     analysis |-> IF description = "" THEN DefaultAnalysis ELSE description]
  /\ loading' = FALSE
  /\ UNCHANGED <<screen, imageUri, imageFile, error, hasAnalyzed, effectDue, lastEffect,
                 invoked, changes, notScreen>>

\* the awaited call rejects: setError, setArtworkInfo(null), setLoading(false)
AnalysisRejects(err) ==
  /\ pending
  /\ pending' = FALSE
  /\ error' = [null |-> FALSE, message |-> ErrorMessage(err)]
  /\ artworkInfo' = NullInfo
  /\ loading' = FALSE
  /\ UNCHANGED <<screen, imageUri, imageFile, hasAnalyzed, effectDue, lastEffect,
                 invoked, changes, notScreen>>

\* the back button, rendered once loading is false
BackButton ==
  /\ screen = "mounted"
  /\ ~loading
  /\ screen' = "home"
  /\ UNCHANGED <<imageUri, imageFile, loading, artworkInfo, error, hasAnalyzed, effectDue,
                 lastEffect, pending, invoked, changes, notScreen>>

-----------------------------------------------------------------------------
(* ArtworkAnalysisService.analyzeArtwork *)

KeyStates == {"absent", "placeholder", "real"}

\* `if (this.apiKeys.x)`: any non-empty string is truthy
KeySet(k) == akeys[k] # "absent"

\* checkApiStatus: configured means set and not the placeholder text
\* 'your_..._api_key_here'; the free sources are always reported available
checkApiStatus ==
  [googleVision |-> akeys.googleVision = "real",
   microsoftVision |-> akeys.microsoftVision = "real",
   artInstitute |-> TRUE,
   openai |-> akeys.openai = "real",
   rijksmuseum |-> TRUE,
   harvard |-> akeys.harvard = "real",
   metMuseum |-> TRUE,
   wikipedia |-> TRUE,
   artSearch |-> akeys.artsearch # "absent"]

NoExtras ==
  [metMuseumData |-> FALSE, colorAnalysis |-> FALSE, wikipediaData |-> FALSE,
   openAIAnalysis |-> FALSE, similarArtworks |-> FALSE]

NoAnalysis == [status |-> "none", message |-> "", sources |-> <<>>]

AnalyzeThrew(msg) == [status |-> "threw", message |-> msg, sources |-> <<>>]

\* the call to `provider` is made, and succeeds exactly when ok
Attempt(provider, ok) ==
  /\ asent' = asent \cup {provider}
  /\ aok' = IF ok THEN aok \cup {provider} ELSE aok

\* checkApiStatus and the guard on the free sources
AnalyzeStart ==
  /\ apc = "start"
  /\ LET apiStatus == checkApiStatus
     IN IF ~apiStatus.artInstitute /\ ~apiStatus.metMuseum /\ ~apiStatus.wikipedia
           /\ ~apiStatus.rijksmuseum /\ ~apiStatus.harvard
          THEN /\ apc' = "failed"
               /\ aresult' = AnalyzeThrew("No free APIs available. Please check your internet connection.")
          ELSE /\ apc' = "read"
               /\ UNCHANGED aresult
  /\ UNCHANGED <<akeys, aresults, avision, aextras, asent, aok, notAnalyze>>

\* fileToBase64 resolves, or rejects (FileReader.onerror) and the error is
\* rethrown
AnalyzeRead(ok) ==
  /\ apc = "read"
  /\ IF ok THEN apc' = "google" /\ UNCHANGED aresult
           ELSE apc' = "failed" /\ aresult' = AnalyzeThrew("read")
  /\ UNCHANGED <<akeys, aresults, avision, aextras, asent, aok, notAnalyze>>

\* Google Vision, tried when its key is set; a failure is logged
AnalyzeGoogle(ok) ==
  /\ apc = "google"
  /\ ok => akeys.googleVision = "real"
  /\ IF KeySet("googleVision")
       THEN /\ Attempt("Google Vision", ok)
            /\ aresults' = IF ok THEN Append(aresults, "Google Vision") ELSE aresults
            /\ avision' = IF ok THEN avision + 1 ELSE avision
       ELSE ~ok /\ UNCHANGED <<aresults, avision, asent, aok>>
  /\ apc' = "microsoft"
  /\ UNCHANGED <<akeys, aextras, aresult, notAnalyze>>

\* Microsoft Vision, tried when its key and endpoint are set
AnalyzeMicrosoft(ok) ==
  /\ apc = "microsoft"
  /\ ok => akeys.microsoftVision = "real"
  /\ IF KeySet("microsoftVision")
       THEN /\ Attempt("Microsoft Vision", ok)
            /\ aresults' = IF ok THEN Append(aresults, "Microsoft Vision") ELSE aresults
            /\ avision' = IF ok THEN avision + 1 ELSE avision
       ELSE ~ok /\ UNCHANGED <<aresults, avision, asent, aok>>
  /\ apc' = "enrich"
  /\ UNCHANGED <<akeys, aextras, aresult, notAnalyze>>

\* the four collection searches, in the order their first hit is pushed
Collections ==
  <<"Art Institute of Chicago", "Rijksmuseum", "Harvard Art Museums", "Art Search">>

\* searchHarvardArtwork and searchArtSearch return [] without a request when
\* their key is not set
CollectionAsked(c) ==
  CASE c = "Harvard Art Museums" -> KeySet("harvard")
    [] c = "Art Search" -> KeySet("artsearch")
    [] OTHER -> TRUE

CollectionCanAnswer(c) ==
  CASE c = "Harvard Art Museums" -> akeys.harvard = "real"
    [] c = "Art Search" -> akeys.artsearch = "real"
    [] OTHER -> TRUE

RECURSIVE Restrict(_, _)
Restrict(seq, set) ==
  IF seq = <<>> THEN <<>>
  ELSE IF Head(seq) \in set THEN <<Head(seq)>> \o Restrict(Tail(seq), set)
  ELSE Restrict(Tail(seq), set)

\* Promise.all over the four searches, each with .catch(() => []); the top
\* item of every non-empty answer is pushed
AnalyzeEnrich(found) ==
  /\ apc = "enrich"
  /\ found \subseteq {c \in Elems(Collections) : CollectionCanAnswer(c)}
  /\ aresults' = aresults \o Restrict(Collections, found)
  /\ asent' = asent \cup {c \in Elems(Collections) : CollectionAsked(c)}
  /\ aok' = aok \cup found
  /\ apc' = "met"
  /\ UNCHANGED <<akeys, avision, aextras, aresult, notAnalyze>>

\* a lookup made only when results is not empty; a failure is logged
Lookup(extra, provider, ok, next) ==
  /\ IF aresults # <<>>
       THEN /\ Attempt(provider, ok)
            /\ aextras' = [aextras EXCEPT ![extra] = ok]
       ELSE ~ok /\ UNCHANGED <<aextras, asent, aok>>
  /\ apc' = next
  /\ UNCHANGED <<akeys, aresults, avision, aresult, notAnalyze>>

AnalyzeMet(ok) == apc = "met" /\ Lookup("metMuseumData", "Met Museum", ok, "color")

\* extractColorsFromImage resolves with a palette (the default one when the
\* image does not load); colorAnalysis is built from it
AnalyzeColor ==
  /\ apc = "color"
  /\ aextras' = [aextras EXCEPT !.colorAnalysis = TRUE]
  /\ apc' = "wikipedia"
  /\ UNCHANGED <<akeys, aresults, avision, asent, aok, aresult, notAnalyze>>

AnalyzeWikipedia(ok) ==
  apc = "wikipedia" /\ Lookup("wikipediaData", "Wikipedia", ok, "openai")

\* analyzeWithOpenAI, called when the key is set and a vision result exists
AnalyzeOpenAI(ok) ==
  /\ apc = "openai"
  /\ ok => akeys.openai = "real"
  /\ IF KeySet("openai") /\ avision > 0
       THEN /\ Attempt("OpenAI", ok)
            /\ aextras' = [aextras EXCEPT !.openAIAnalysis = ok]
       ELSE ~ok /\ UNCHANGED <<aextras, asent, aok>>
  /\ apc' = "similar"
  /\ UNCHANGED <<akeys, aresults, avision, aresult, notAnalyze>>

AnalyzeSimilar(ok) ==
  apc = "similar" /\ Lookup("similarArtworks", "Similar artworks", ok, "generic")

\* when results is empty and a free source is available, the generic
\* analysis is pushed and the Art Institute (and Harvard, if configured) are
\* searched for 'artwork'
AnalyzeGeneric(artFound, harvardFound) ==
  /\ apc = "generic"
  /\ LET apiStatus == checkApiStatus
     IN IF aresults = <<>>
           /\ (apiStatus.artInstitute \/ apiStatus.metMuseum \/ apiStatus.wikipedia)
          THEN /\ harvardFound => apiStatus.harvard
               /\ aresults' = <<"Generic Analysis">>
                    \o (IF artFound THEN <<"Art Institute of Chicago">> ELSE <<>>)
                    \o (IF harvardFound THEN <<"Harvard Art Museums">> ELSE <<>>)
               /\ asent' = asent \cup {"Art Institute of Chicago"}
                    \cup (IF apiStatus.harvard THEN {"Harvard Art Museums"} ELSE {})
               /\ aok' = aok \cup (IF artFound THEN {"Art Institute of Chicago"} ELSE {})
                    \cup (IF harvardFound THEN {"Harvard Art Museums"} ELSE {})
          ELSE /\ ~artFound /\ ~harvardFound
               /\ UNCHANGED <<aresults, asent, aok>>
  /\ apc' = "finish"
  /\ UNCHANGED <<akeys, avision, aextras, aresult, notAnalyze>>

\* `if (results.length === 0) throw`, else combineAnalysisResults
AnalyzeFinish ==
  /\ apc = "finish"
  /\ IF aresults = <<>>
       THEN /\ apc' = "failed"
            /\ aresult' = AnalyzeThrew("All APIs failed. Please check your API keys and try again.")
       ELSE /\ apc' = "done"
            /\ aresult' = [status |-> "ok", message |-> "", sources |-> aresults]
  /\ UNCHANGED <<akeys, aresults, avision, aextras, asent, aok, notAnalyze>>

-----------------------------------------------------------------------------
(* generateAnalysisSummary *)

\* the summary has 40 units
SummaryLength == 40

\* the sentence pushed for a slot whose datum is absent, slot by slot
Canned ==
  << "This artwork presents a compelling visual composition that invites careful observation and analysis.",
     "The technical execution reveals careful attention to artistic principles and skilled craftsmanship.",
     "The composition demonstrates thoughtful arrangement of visual elements that guide the viewer's eye.",
     "The color choices demonstrate careful consideration of visual harmony and emotional impact.",
     "The color temperature contributes to the overall mood and emotional resonance of the piece.",
     "The artist employs sophisticated color relationships that create visual harmony and balance.",
     "The color choices work together to create a distinct emotional atmosphere that enhances the artwork's impact.",
     "The artwork reveals the artist's unique perspective and creative vision through thoughtful visual choices.",
     "The composition demonstrates careful planning and artistic intention in every element placement.",
     "The arrangement of visual elements creates a dynamic flow that engages the viewer throughout the composition.",
     "The artist's understanding of color theory is evident in the sophisticated palette and color relationships.",
     "The technical execution reveals mastery of artistic materials and techniques appropriate to the work's purpose.",
     "The artwork communicates meaning through its visual language, inviting viewers to engage with its underlying themes.",
     "The emotional resonance of the piece demonstrates the artist's ability to connect with viewers on a profound level.",
     "The artwork connects to broader artistic traditions and cultural contexts that enhance its significance.",
     "The artist's choice of materials reveals careful consideration of how different media can enhance the artwork's expressive potential.",
     "The artwork contributes to our understanding of artistic traditions and cultural expression.",
     "This artwork provides valuable learning opportunities for developing visual literacy and artistic appreciation.",
     "The artwork invites viewers to engage in critical thinking about artistic choices, cultural meaning, and personal interpretation.",
     "This artwork represents a meaningful contribution to visual culture, demonstrating the power of art to communicate, inspire, and transform." >>

\* slot 15, when the Met Museum record has neither culture and date nor medium
CannedMetWithoutContext ==
  "This artwork connects to broader artistic traditions and cultural contexts that enhance its significance."

PaddingSentence ==
  "The artwork continues to reveal new insights upon repeated viewing, demonstrating the depth of artistic expression."

CannedUnit(text) == [kind |-> "canned", text |-> text]

\* a sentence built from upstream data, named by its template
RealUnit(template) == [kind |-> "real", text |-> template]

W_monet == <<"M", "o", "n", "e", "t">>

\* results[0], as far as the summary reads it
FirstResults ==
  {[present |-> FALSE, description |-> FALSE, techniques |-> FALSE, elements |-> FALSE]}
  \cup [present : {TRUE}, description : BOOLEAN, techniques : BOOLEAN, elements : BOOLEAN]

\* colorAnalysis as analyzeArtwork builds it: null, or with its three texts
\* set and a palette that may be empty
ColorAnalyses ==
  {[present |-> FALSE, dominantColors |-> FALSE, colorTemperature |-> FALSE,
    colorHarmony |-> FALSE, colorMood |-> FALSE]}
  \cup [present : {TRUE}, dominantColors : BOOLEAN, colorTemperature : {TRUE},
        colorHarmony : {TRUE}, colorMood : {TRUE}]

OptionalFields ==
  {"compositionNotes", "colorTheory", "technicalAnalysis", "themes",
   "emotionalImpact", "learningObjectives", "discussionQuestions"}

\* openAIAnalysis: null, or an object with its artisticInsights array and
\* some of the optional fields
OpenAIAnalyses ==
  {[present |-> FALSE, artisticInsights |-> 0, fields |-> {}]}
  \cup {a \in [present : {TRUE}, artisticInsights : 0..2, fields : SUBSET OptionalFields] :
          \/ Cardinality(a.fields) <= MaxOptional
          \/ Cardinality(OptionalFields \ a.fields) <= MaxOptional}

MetRecords ==
  {[present |-> FALSE, culture |-> FALSE, objectDate |-> FALSE, medium |-> FALSE]}
  \cup [present : {TRUE}, culture : BOOLEAN, objectDate : BOOLEAN, medium : BOOLEAN]

\* wikipediaData: null, or a page whose extract is empty, blank or a text
WikipediaPages ==
  {[present |-> FALSE, extract |-> <<>>]}
  \cup [present : {TRUE}, extract : {<<>>, <<" ", " ">>, W_monet}]

SummaryInputs ==
  [result : FirstResults, colorAnalysis : ColorAnalyses, openAIAnalysis : OpenAIAnalyses,
   metMuseumData : MetRecords, wikipediaData : WikipediaPages, similarArtworks : BOOLEAN]

NoSummaryInput ==
  [result |-> [present |-> FALSE, description |-> FALSE, techniques |-> FALSE,
               elements |-> FALSE],
   colorAnalysis |-> [present |-> FALSE, dominantColors |-> FALSE,
                      colorTemperature |-> FALSE, colorHarmony |-> FALSE,
                      colorMood |-> FALSE],
   openAIAnalysis |-> [present |-> FALSE, artisticInsights |-> 0, fields |-> {}],
   metMuseumData |-> [present |-> FALSE, culture |-> FALSE, objectDate |-> FALSE,
                      medium |-> FALSE],
   wikipediaData |-> [present |-> FALSE, extract |-> <<>>],
   similarArtworks |-> FALSE]

\* `cond ? the real sentence : the canned sentence of slot i`
Either(cond, template, i) == IF cond THEN RealUnit(template) ELSE CannedUnit(Canned[i])

\* openAIAnalysis && openAIAnalysis.field
HasField(in, field) == in.openAIAnalysis.present /\ field \in in.openAIAnalysis.fields

\* wikipediaData.extract.substring(0, 150).trim()
ExtractShown(in) ==
  trim(SubSeq(in.wikipediaData.extract, 1, Min(150, Len(in.wikipediaData.extract))))

\* slot 15
MetContextUnit(in) ==
  IF in.metMuseumData.present
    THEN IF in.metMuseumData.culture /\ in.metMuseumData.objectDate
           THEN RealUnit("Created in the {objectDate} period, this work reflects {culture} cultural traditions and artistic values.")
         ELSE IF in.metMuseumData.medium
           THEN RealUnit("The use of {medium} reflects traditional artistic practices and material choices.")
         ELSE CannedUnit(CannedMetWithoutContext)
    ELSE CannedUnit(Canned[15])

\* slot 17
WikipediaUnit(in) ==
  IF in.wikipediaData.present /\ in.wikipediaData.extract # <<>>
    THEN IF ExtractShown(in) # <<>>
           THEN RealUnit("Educational context reveals that {extract}...")
           ELSE CannedUnit(Canned[17])
    ELSE CannedUnit(Canned[17])

\* the twenty topic slots, in the order they are pushed
TopicUnits(in) ==
  << Either(in.result.present /\ in.result.description, "{description}", 1),
     Either(in.result.present /\ in.result.techniques,
            "The artwork demonstrates sophisticated technical mastery through {techniques}.", 2),
     Either(in.result.present /\ in.result.elements,
            "Key compositional elements include {elements}.", 3),
     Either(in.colorAnalysis.present /\ in.colorAnalysis.dominantColors,
            "The dominant color palette features {topColors}, creating a visually cohesive aesthetic.", 4),
     Either(in.colorAnalysis.present /\ in.colorAnalysis.colorTemperature,
            "The {colorTemperature} creates a specific atmospheric quality.", 5),
     Either(in.colorAnalysis.present /\ in.colorAnalysis.colorHarmony,
            "{colorHarmony} This demonstrates advanced understanding of color relationships.", 6),
     Either(in.colorAnalysis.present /\ in.colorAnalysis.colorMood,
            "{colorMood} These choices reveal the artist's intention to evoke specific feelings.", 7),
     Either(in.openAIAnalysis.present /\ in.openAIAnalysis.artisticInsights > 0,
            "{artisticInsights[0]}", 8),
     Either(in.openAIAnalysis.present /\ in.openAIAnalysis.artisticInsights > 1,
            "{artisticInsights[1]}", 9),
     Either(HasField(in, "compositionNotes"), "{compositionNotes}", 10),
     Either(HasField(in, "colorTheory"), "{colorTheory}", 11),
     Either(HasField(in, "technicalAnalysis"), "{technicalAnalysis}", 12),
     Either(HasField(in, "themes"),
            "The artwork explores themes of {themes}, adding depth to its visual impact.", 13),
     Either(HasField(in, "emotionalImpact"), "{emotionalImpact}", 14),
     MetContextUnit(in),
     Either(in.metMuseumData.present /\ in.metMuseumData.medium,
            "The choice of {medium} as the primary medium demonstrates thoughtful consideration of material properties and artistic intent.", 16),
     WikipediaUnit(in),
     Either(HasField(in, "learningObjectives"),
            "Students studying this work can develop skills in {learningObjectives}, enhancing their artistic understanding.", 18),
     Either(HasField(in, "discussionQuestions"),
            "Engaging with this artwork through questions like {discussionQuestions[0]} encourages deeper critical thinking.", 19),
     Either(in.similarArtworks,
            "This artwork's significance is enhanced when considered alongside similar works, demonstrating its place within broader artistic movements.", 20) >>

\* a mutant of the padding: `if` in place of `while`
PadOnce(units) ==
  IF Len(units) < SummaryLength THEN Append(units, CannedUnit(PaddingSentence)) ELSE units

\* while (summary.length < 40) summary.push(padding)
RECURSIVE Pad(_)
Pad(units) ==
  IF Len(units) < SummaryLength THEN Pad(Append(units, CannedUnit(PaddingSentence)))
  ELSE units

\* summary.slice(0, 40), the units that join(' ') glues together
ComposedUnits(in) ==
  LET padded == Pad(TopicUnits(in))
  IN SubSeq(padded, 1, Min(SummaryLength, Len(padded)))

\* one call, with any of the inputs of SummaryInputs
generateAnalysisSummary ==
  /\ spc = "idle"
  /\ \E in \in SummaryInputs :
       /\ sinput' = in
       /\ summary' = ComposedUnits(in)
  /\ spc' = "done"
  /\ UNCHANGED notSummary

-----------------------------------------------------------------------------
(* Specifications *)

VisionIdle ==
  /\ vcall = [p \in Providers |-> "idle"]
  /\ verr = [p \in Providers |-> "none"]
  /\ vval = [p \in Providers |-> EmptyResult]
  /\ vpc = "start"
  /\ combined = EmptyResult

EduIdle ==
  /\ epc = "idle"
  /\ eopenai = FALSE
  /\ analysisStages = <<>>
  /\ insight = NoInsight
  /\ erecall = [ran |-> {}, data |-> EmptyBundle]
  /\ eresult = NoResult

CompIdle ==
  /\ cpc = "idle"
  /\ ckeys = [openai |-> FALSE, harvard |-> FALSE, artsearch |-> FALSE]
  /\ cinsight = EmptyObject
  /\ cslots = [s \in Slots |-> "notrun"]
  /\ recallData = [f \in BundleFields |-> "null"]
  /\ cresult = NoCompResult

AnalyzeIdle ==
  /\ apc = "start"
  /\ akeys = [googleVision |-> "absent", microsoftVision |-> "absent", openai |-> "absent",
              harvard |-> "absent", artsearch |-> "absent"]
  /\ aresults = <<>>
  /\ avision = 0
  /\ aextras = NoExtras
  /\ asent = {}
  /\ aok = {}
  /\ aresult = NoAnalysis

SummaryIdle ==
  /\ spc = "idle"
  /\ sinput = NoSummaryInput
  /\ summary = <<>>

OverlapIdle ==
  /\ rpc = [r \in Requests |-> "off"]
  /\ rwritten = [r \in Requests |-> <<>>]
  /\ rresult = [r \in Requests |-> NoResult]

OrderIdle ==
  /\ opc = "off"
  /\ oresp = [c \in OrderCalls |-> FALSE]
  /\ ocall = [c \in OrderCalls |-> "idle"]
  /\ oresults = [j \in DOMAIN JoinCalls |-> [i \in 1..Len(JoinCalls[j]) |-> Unsettled]]
  /\ obundle = [s \in OrderSlots |-> <<>>]
  /\ ocombined = <<>>

SearchIdle ==
  /\ qfn = "none"
  /\ qpc = "off"
  /\ qkey = FALSE
  /\ qsimple = FALSE
  /\ qlog = <<>>
  /\ qresult = "none"

WikiIdle ==
  /\ wfn = "none"
  /\ wquery = <<>>
  /\ wclean = <<>>
  /\ wpc = "off"
  /\ wlog = <<>>
  /\ wresult = "none"

TermsIdle ==
  /\ tpc = "off"
  /\ tlabels = <<>>
  /\ tinsight = EmptyObject
  /\ tterms = TypeError

SimilarIdle ==
  /\ mpc = "off"
  /\ mterms = 0
  /\ mfound = <<>>
  /\ msearched = 0
  /\ msimilar = <<>>

ParseIdle ==
  /\ ppc = "off"
  /\ pfn = "none"
  /\ preply = <<>>
  /\ presult = NotParsed

PaletteIdle ==
  /\ xpc = "off"
  /\ xload = "error"
  /\ xpixels = <<>>
  /\ xcrowd = 0
  /\ xpalette = <<>>

HarmonyIdle ==
  /\ hpc = "off"
  /\ hfn = "apiService"
  /\ hcolors = <<>>
  /\ hharmony = ""

ScreenIdle ==
  /\ screen = "off"
  /\ imageUri = "absent"
  /\ imageFile = "absent"
  /\ loading = TRUE
  /\ artworkInfo = NullInfo
  /\ error = NullError
  /\ hasAnalyzed = FALSE
  /\ effectDue = FALSE
  /\ lastEffect = "none"
  /\ pending = FALSE
  /\ invoked = 0
  /\ changes = 0

\* the vision aggregator on its own, over all provider answers up to MaxItems
VisionInit ==
  /\ vkeys \in [Providers -> BOOLEAN]
  /\ VisionIdle
  /\ EduIdle
  /\ CompIdle
  /\ AnalyzeIdle
  /\ SummaryIdle
  /\ ScreenIdle
  /\ HarmonyIdle
  /\ PaletteIdle
  /\ ParseIdle
  /\ SimilarIdle
  /\ TermsIdle
  /\ WikiIdle
  /\ SearchIdle
  /\ OrderIdle
  /\ OverlapIdle

VisionNext ==
  \/ VisionStart
  \/ \E p \in Providers, e \in CallErrors : VisionReject(p, e)
  \/ \E p \in Providers : \E r \in ResultsWithinBound(p) : VisionFulfil(p, r)
  \/ VisionCombine

SpecVision == VisionInit /\ [][VisionNext]_vars

\* one request through analyzeArtworkEducationally
EduInit ==
  /\ vkeys \in [Providers -> BOOLEAN]
  /\ VisionIdle
  /\ epc = "idle"
  /\ eopenai \in BOOLEAN
  \* the singleton may hold the stages of an earlier request
  /\ analysisStages \in {<<>>, <<[stage |-> "recall", apisUsed |-> <<"Art APIs">>]>>}
  /\ insight = NoInsight
  /\ erecall = [ran |-> {}, data |-> EmptyBundle]
  /\ eresult = NoResult
  /\ CompIdle
  /\ AnalyzeIdle
  /\ SummaryIdle
  /\ ScreenIdle
  /\ HarmonyIdle
  /\ PaletteIdle
  /\ ParseIdle
  /\ SimilarIdle
  /\ TermsIdle
  /\ WikiIdle
  /\ SearchIdle
  /\ OrderIdle
  /\ OverlapIdle

EduNext ==
  \/ EduStart
  \/ EduVisionStart
  \/ EduReadFails
  \/ \E p \in Providers, e \in CallErrors : VisionReject(p, e)
  \/ \E p \in Providers : \E r \in EduResultsOf(p) : VisionFulfil(p, r)
  \/ EduVisionComplete
  \/ \E e \in InterpretErrors \cup {"nokey"} : EduInterpretFails(e)
  \/ \E ins \in EduInsights : EduInterpret(ins)
  \/ performTargetedRecall
  \/ \E e \in SynthesisErrors \cup {"nokey"} : EduSynthesisFails(e)
  \/ generateFinalSynthesis

SpecEdu == EduInit /\ [][EduNext]_vars

\* one request through the comprehensive pipeline, all three vision
\* credentials set
CompInit ==
  /\ vkeys = [p \in Providers |-> TRUE]
  /\ VisionIdle
  /\ EduIdle
  /\ cpc = "idle"
  /\ ckeys \in [openai : BOOLEAN, harvard : BOOLEAN, artsearch : BOOLEAN]
  /\ cinsight = EmptyObject
  /\ cslots = [s \in Slots |-> "notrun"]
  /\ recallData = [f \in BundleFields |-> "null"]
  /\ cresult = NoCompResult
  /\ AnalyzeIdle
  /\ SummaryIdle
  /\ ScreenIdle
  /\ HarmonyIdle
  /\ PaletteIdle
  /\ ParseIdle
  /\ SimilarIdle
  /\ TermsIdle
  /\ WikiIdle
  /\ SearchIdle
  /\ OrderIdle
  /\ OverlapIdle

CompNext ==
  \/ CompStart
  \/ \E p \in Providers : VisionReject(p, "http")
  \/ \E p \in Providers : \E r \in CompResultsOf(p) : VisionFulfil(p, r)
  \/ CompVisionComplete
  \/ \E e \in CompInterpretErrors : CompInterpretFails(e)
  \/ \E ins \in CompInsights : CompInterpret(ins)
  \/ performComprehensiveRecall
  \/ \E s \in Slots : CompSlotFulfils(s)
  \/ \E s \in Slots : CompSlotFails(s)
  \/ CompRecallJoin
  \/ \E e \in CompSynthesisErrors : CompSynthesisFails(e)
  \/ CompSynthesis

SpecComp == CompInit /\ [][CompNext]_vars

\* one call of analyzeArtwork, over every configuration of the credentials
AnalyzeInit ==
  /\ VisionIdle
  /\ vkeys = [p \in Providers |-> FALSE]
  /\ EduIdle
  /\ CompIdle
  /\ apc = "start"
  /\ akeys \in [googleVision : KeyStates, microsoftVision : KeyStates, openai : KeyStates,
                 harvard : KeyStates, artsearch : {"absent", "real"}]
  /\ aresults = <<>>
  /\ avision = 0
  /\ aextras = NoExtras
  /\ asent = {}
  /\ aok = {}
  /\ aresult = NoAnalysis
  /\ SummaryIdle
  /\ ScreenIdle
  /\ HarmonyIdle
  /\ PaletteIdle
  /\ ParseIdle
  /\ SimilarIdle
  /\ TermsIdle
  /\ WikiIdle
  /\ SearchIdle
  /\ OrderIdle
  /\ OverlapIdle

AnalyzeNext ==
  \/ AnalyzeStart
  \/ \E ok \in BOOLEAN : AnalyzeRead(ok)
  \/ \E ok \in BOOLEAN : AnalyzeGoogle(ok)
  \/ \E ok \in BOOLEAN : AnalyzeMicrosoft(ok)
  \/ \E found \in SUBSET Elems(Collections) : AnalyzeEnrich(found)
  \/ \E ok \in BOOLEAN : AnalyzeMet(ok)
  \/ AnalyzeColor
  \/ \E ok \in BOOLEAN : AnalyzeWikipedia(ok)
  \/ \E ok \in BOOLEAN : AnalyzeOpenAI(ok)
  \/ \E ok \in BOOLEAN : AnalyzeSimilar(ok)
  \/ \E artFound, harvardFound \in BOOLEAN : AnalyzeGeneric(artFound, harvardFound)
  \/ AnalyzeFinish

SpecAnalyze == AnalyzeInit /\ [][AnalyzeNext]_vars

\* one call of generateAnalysisSummary, over the inputs of SummaryInputs
SummaryInit ==
  /\ VisionIdle
  /\ vkeys = [p \in Providers |-> FALSE]
  /\ EduIdle
  /\ CompIdle
  /\ AnalyzeIdle
  /\ SummaryIdle
  /\ ScreenIdle
  /\ HarmonyIdle
  /\ PaletteIdle
  /\ ParseIdle
  /\ SimilarIdle
  /\ TermsIdle
  /\ WikiIdle
  /\ SearchIdle
  /\ OrderIdle
  /\ OverlapIdle

SummaryNext == generateAnalysisSummary

SpecSummary == SummaryInit /\ [][SummaryNext]_vars

\* two overlapping requests on the service singleton
OverlapInit ==
  /\ vkeys = [p \in Providers |-> TRUE]
  /\ VisionIdle
  /\ EduIdle
  /\ CompIdle
  /\ AnalyzeIdle
  /\ SummaryIdle
  /\ ScreenIdle
  /\ HarmonyIdle
  /\ PaletteIdle
  /\ ParseIdle
  /\ SimilarIdle
  /\ TermsIdle
  /\ WikiIdle
  /\ SearchIdle
  /\ OrderIdle
  /\ rpc = [r \in Requests |-> "idle"]
  /\ rwritten = [r \in Requests |-> <<>>]
  /\ rresult = [r \in Requests |-> NoResult]

OverlapNext ==
  \E r \in Requests :
    \/ OverlapStart(r)
    \/ OverlapVisionStart(r)
    \/ OverlapInterpretStart(r)
    \/ OverlapInterpretFails(r)
    \/ OverlapRecallStart(r)
    \/ OverlapSynthesisStart(r)
    \/ OverlapSynthesis(r)

SpecOverlap == OverlapInit /\ [][OverlapNext]_vars

\* one request, every choice of which providers answer, every completion order
OrderInit ==
  /\ vkeys = [p \in Providers |-> TRUE]
  /\ VisionIdle
  /\ EduIdle
  /\ CompIdle
  /\ AnalyzeIdle
  /\ SummaryIdle
  /\ ScreenIdle
  /\ HarmonyIdle
  /\ PaletteIdle
  /\ ParseIdle
  /\ SimilarIdle
  /\ TermsIdle
  /\ WikiIdle
  /\ SearchIdle
  /\ OverlapIdle
  /\ opc = "idle"
  /\ oresp \in [OrderCalls -> BOOLEAN]
  /\ ocall = [c \in OrderCalls |-> "idle"]
  /\ oresults = [j \in DOMAIN JoinCalls |-> [i \in 1..Len(JoinCalls[j]) |-> Unsettled]]
  /\ obundle = [s \in OrderSlots |-> <<>>]
  /\ ocombined = <<>>

OrderNext ==
  \/ OrderStart
  \/ \E c \in OrderCalls : OrderSettle(c)
  \/ OrderCombine
  \/ \E c \in OrderCalls : OrderHandler(c)
  \/ OrderSimilar
  \/ OrderJoin

SpecOrder == OrderInit /\ [][OrderNext]_vars

\* one call of one of the museum searches
SearchInit ==
  /\ vkeys = [p \in Providers |-> TRUE]
  /\ VisionIdle
  /\ EduIdle
  /\ CompIdle
  /\ AnalyzeIdle
  /\ SummaryIdle
  /\ ScreenIdle
  /\ HarmonyIdle
  /\ PaletteIdle
  /\ ParseIdle
  /\ SimilarIdle
  /\ TermsIdle
  /\ WikiIdle
  /\ OverlapIdle
  /\ OrderIdle
  /\ qfn = "none"
  /\ qpc = "idle"
  /\ qkey \in BOOLEAN
  /\ qsimple \in BOOLEAN
  /\ qlog = <<>>
  /\ qresult = "none"

SearchNext ==
  \/ \E f \in SearchFunctions : SearchStart(f)
  \/ \E outcome \in Outcomes : ArtSearchFetch(outcome)
  \/ \E outcome \in Outcomes : MetFetch(outcome)
  \/ \E outcome \in Outcomes : RijksFetch(outcome)
  \/ \E n \in 1..5 : \E ok \in 0..n : SearchDetails(n, ok)

SpecSearch == SearchInit /\ [][SearchNext]_vars

\* one call of one of the two searchWikipedia functions
WikiInit ==
  /\ vkeys = [p \in Providers |-> TRUE]
  /\ VisionIdle
  /\ EduIdle
  /\ CompIdle
  /\ AnalyzeIdle
  /\ SummaryIdle
  /\ ScreenIdle
  /\ HarmonyIdle
  /\ PaletteIdle
  /\ ParseIdle
  /\ SimilarIdle
  /\ TermsIdle
  /\ OverlapIdle
  /\ OrderIdle
  /\ SearchIdle
  /\ wfn = "none"
  /\ wquery \in WikiQueries
  /\ wclean = <<>>
  /\ wpc = "idle"
  /\ wlog = <<>>
  /\ wresult = "none"

WikiNext ==
  \/ \E f \in {"api", "server"} : WikiStart(f)
  \/ \E outcome \in WikiOutcomes : WikiFirst(outcome)
  \/ \E outcome \in WikiOutcomes : WikiFallback(outcome)

SpecWiki == WikiInit /\ [][WikiNext]_vars

\* extractComprehensiveSearchTerms over every list of up to MaxLabels labels
\* and every insight of the model
TermsInit ==
  /\ vkeys = [p \in Providers |-> TRUE]
  /\ VisionIdle
  /\ EduIdle
  /\ CompIdle
  /\ AnalyzeIdle
  /\ SummaryIdle
  /\ ScreenIdle
  /\ HarmonyIdle
  /\ PaletteIdle
  /\ ParseIdle
  /\ SimilarIdle
  /\ OverlapIdle
  /\ OrderIdle
  /\ SearchIdle
  /\ WikiIdle
  /\ tpc = "idle"
  /\ tlabels \in SeqsUpTo(TermLabels, MaxLabels)
  /\ tinsight \in CompInsights
  /\ tterms = TypeError

TermsNext == ExtractTerms

SpecTerms == TermsInit /\ [][TermsNext]_vars

\* findSimilarArtworks over no term to three terms and every answer of the
\* two museums within MaxFound
SimilarInit ==
  /\ vkeys = [p \in Providers |-> TRUE]
  /\ VisionIdle
  /\ EduIdle
  /\ CompIdle
  /\ AnalyzeIdle
  /\ SummaryIdle
  /\ ScreenIdle
  /\ HarmonyIdle
  /\ PaletteIdle
  /\ ParseIdle
  /\ OverlapIdle
  /\ OrderIdle
  /\ SearchIdle
  /\ WikiIdle
  /\ TermsIdle
  /\ mpc = "idle"
  /\ mterms \in 0..3
  /\ mfound = <<>>
  /\ msearched = 0
  /\ msimilar = <<>>

SimilarNext == SimilarSearch

SpecSimilar == SimilarInit /\ [][SimilarNext]_vars

\* the three functions over every reply of up to MaxReply characters
ParseInit ==
  /\ vkeys = [p \in Providers |-> TRUE]
  /\ VisionIdle
  /\ EduIdle
  /\ CompIdle
  /\ AnalyzeIdle
  /\ SummaryIdle
  /\ ScreenIdle
  /\ HarmonyIdle
  /\ PaletteIdle
  /\ OverlapIdle
  /\ OrderIdle
  /\ SearchIdle
  /\ WikiIdle
  /\ TermsIdle
  /\ SimilarIdle
  /\ ppc = "idle"
  /\ pfn = "none"
  /\ preply \in SeqsUpTo(ReplyChars, MaxReply)
  /\ presult = NotParsed

ParseNext == \E f \in ParseFunctions : ParseReply(f)

SpecParse == ParseInit /\ [][ParseNext]_vars

\* extractColorsFromImage over every way the image loads, every image of up
\* to MaxPixels sample pixels and every crowd size; an image has a pixel
PaletteInit ==
  /\ vkeys = [p \in Providers |-> TRUE]
  /\ VisionIdle
  /\ EduIdle
  /\ CompIdle
  /\ AnalyzeIdle
  /\ SummaryIdle
  /\ ScreenIdle
  /\ HarmonyIdle
  /\ OverlapIdle
  /\ OrderIdle
  /\ SearchIdle
  /\ WikiIdle
  /\ TermsIdle
  /\ SimilarIdle
  /\ ParseIdle
  /\ xpc = "idle"
  /\ xload \in {"error", "nocontext", "decoded"}
  /\ xpixels \in SeqsUpTo(SamplePixels, MaxPixels)
  /\ xcrowd \in CrowdSizes
  /\ Len(xpixels) + xcrowd > 0
  /\ xpalette = <<>>

PaletteNext ==
  \/ ImageError
  \/ NoContext
  \/ ImageLoaded

SpecPalette == PaletteInit /\ [][PaletteNext]_vars

\* analyzeColorHarmony on its own, over all sequences of up to MaxColors
\* colours
HarmonyInit ==
  /\ vkeys = [p \in Providers |-> TRUE]
  /\ VisionIdle
  /\ EduIdle
  /\ CompIdle
  /\ AnalyzeIdle
  /\ SummaryIdle
  /\ ScreenIdle
  /\ OverlapIdle
  /\ OrderIdle
  /\ SearchIdle
  /\ WikiIdle
  /\ TermsIdle
  /\ SimilarIdle
  /\ ParseIdle
  /\ PaletteIdle
  /\ hpc = "idle"
  /\ hfn \in {"apiService", "server"}
  /\ hcolors \in IF hfn = "server" THEN SeqsUpTo(ColorStrings, MaxColors)
                 ELSE SeqsUpTo(PaletteColors, MaxColors)
  /\ hharmony = ""

HarmonyNext ==
  \/ HarmonyOfPalette
  \/ HarmonyOfStrings

SpecHarmony == HarmonyInit /\ [][HarmonyNext]_vars

\* the analysis screen from its first render, for every navigation state
ScreenInit ==
  /\ vkeys = [p \in Providers |-> TRUE]
  /\ VisionIdle
  /\ EduIdle
  /\ CompIdle
  /\ AnalyzeIdle
  /\ SummaryIdle
  /\ OverlapIdle
  /\ OrderIdle
  /\ SearchIdle
  /\ WikiIdle
  /\ TermsIdle
  /\ SimilarIdle
  /\ ParseIdle
  /\ PaletteIdle
  /\ HarmonyIdle
  /\ screen = "mounted"
  /\ imageUri \in ImageUris
  /\ imageFile \in ImageFiles
  /\ loading = TRUE
  /\ artworkInfo = NullInfo
  /\ error = NullError
  /\ hasAnalyzed = FALSE
  /\ effectDue = TRUE
  /\ lastEffect = "none"
  /\ pending = FALSE
  /\ invoked = 0
  /\ changes = 0

EffectRuns ==
  \/ EffectSkips
  \/ EffectAnalyzes
  \/ EffectNavigates
  \/ EffectIdles

AnalysisSettles ==
  \/ \E description \in Descriptions : AnalysisResolves(description)
  \/ \E err \in Thrown : AnalysisRejects(err)

ScreenNext ==
  \/ EffectRuns
  \/ AnalysisSettles
  \/ \E uri \in ImageUris, file \in ImageFiles : LocationChanges(uri, file)
  \/ BackButton

SpecScreen == ScreenInit /\ [][ScreenNext]_vars

\* React runs a due effect, and the awaited call settles; nothing makes the
\* location change or the user press the back button
SpecScreenFair ==
  /\ ScreenInit
  /\ [][ScreenNext]_vars
  /\ WF_vars(EffectRuns)
  /\ WF_vars(AnalysisSettles)

-----------------------------------------------------------------------------
(* Claims about the vision aggregator (SpecVision) *)

Succeeded == {p \in Providers : vcall[p] = "fulfilled"}

ListFields == {"labels", "objects", "colors", "text"}

\* what the providers that succeeded returned for field f, in the fixed
\* provider order Clarifai, Google Vision, Microsoft Vision
ReturnedBy(p, f) == IF p \in Succeeded THEN vval[p][f] ELSE <<>>

ReturnedInOrder(f) ==
  ReturnedBy("clarifai", f) \o ReturnedBy("google", f) \o ReturnedBy("microsoft", f)

FirstOccurrence(s, x) == CHOOSE i \in 1..Len(s) : s[i] = x /\ \A j \in 1..(i-1) : s[j] # x

NoDuplicates(s) == \A i, j \in 1..Len(s) : s[i] = s[j] => i = j

\* C1: the aggregate never throws, whatever subset of the three provider
\* calls fails; it holds exactly the items the providers that succeeded
\* returned (a failed provider contributes nothing, a successful one loses
\* nothing), and with all three failing it is the empty observation with
\* face count 0.
C1_PartialFailureTolerant ==
  /\ vpc # "threw"
  /\ vpc = "done" =>
       /\ \A f \in ListFields :
            Elems(combined[f]) = UNION {Elems(vval[p][f]) : p \in Succeeded}
       /\ Succeeded = {} =>
            combined = [labels |-> <<>>, objects |-> <<>>, colors |-> <<>>,
                        text |-> <<>>, faces |-> 0]

\* C1 witness: all three calls failed, each for a different reason, and the
\* aggregate returned.
C1_Witness ==
  /\ vpc = "done"
  /\ verr = [clarifai |-> "nokey", google |-> "http", microsoft |-> "malformed"]
  /\ Succeeded = {}

\* C2: every merged list holds each item some succeeding provider returned
\* exactly once, in the order of first occurrence in the concatenation taken
\* in the provider order Clarifai, Google Vision, Microsoft Vision; the face
\* count is the sum over the providers that report one (Google Vision only).
C2_MergeOrderAndDedup ==
  vpc = "done" =>
    /\ \A f \in ListFields :
         LET all == ReturnedInOrder(f)
             out == combined[f]
         IN /\ NoDuplicates(out)
            /\ Elems(out) = Elems(all)
            /\ \A i, j \in 1..Len(out) :
                 i < j => FirstOccurrence(all, out[i]) < FirstOccurrence(all, out[j])
    /\ combined.faces = (IF "google" \in Succeeded THEN vval["google"].faces ELSE 0)

\* C2 witness: the example of the specification, A = [red, blue] and
\* B = [blue, green] merged to [red, blue, green].
C2_Witness ==
  /\ vpc = "done"
  /\ Succeeded = {"clarifai", "google"}
  /\ vval["clarifai"].labels = <<"red", "blue">>
  /\ vval["google"].labels = <<"blue", "green">>
  /\ combined.labels = <<"red", "blue", "green">>

-----------------------------------------------------------------------------
(* Claims about the comprehensive pipeline (SpecComp) *)

\* C3: a failure of the interpretation stage (credential absent, non-2xx
\* status, unparseable reply) never aborts the request: the request does not
\* end by throwing out of the interpretation stage.
C3_InterpretationFailureNotFatal ==
  ~(cpc = "failed" /\ cresult.status = "threw" /\ cresult.stage = "interpretation")

\* C4: the recall dispatcher never raises, whatever the observation and the
\* insight (null, keys missing, values that are not arrays of strings) and
\* whichever slot calls fail; in the bundle it returns, every slot whose call
\* failed or was skipped is null.
C4_RecallNeverRaises ==
  /\ ~(cresult.status = "threw" /\ cresult.stage = "recall")
  /\ cpc \in {"synthesis", "done"} =>
       \A s \in Slots : cslots[s] \in {"notrun", "failed"} => recallData[s] = "null"

-----------------------------------------------------------------------------
(* Claims about EducationalArtService (SpecEdu) *)

\* the call that fills each slot of the bundle
SlotCall ==
  [textureAnalysis |-> "texture", colorAnalysis |-> "color",
   historicalContext |-> "history", comparativeExamples |-> "comparison",
   wikipediaData |-> "wikipedia"]

\* C5: in the recall bundle a slot is null exactly when its own call did not
\* run or failed, and a slot that is not null holds the result of its own
\* call, never that of a sibling call.
C5_SlotHoldsOwnResult ==
  \A slot \in DOMAIN SlotCall :
    erecall.data[slot] =
      (IF SlotCall[slot] \in erecall.ran THEN RecallValue(SlotCall[slot]) ELSE "null")

ProviderName ==
  [clarifai |-> "Clarifai", google |-> "Google Vision", microsoft |-> "Microsoft Vision"]

\* C9: the sources of the returned analysis hold no name twice, and hold the
\* name of a vision provider exactly when that provider's call succeeded in
\* this request.
C9_SourcesAreProvidersUsed ==
  eresult.status = "ok" =>
    /\ NoDuplicates(eresult.sources)
    /\ \A p \in Providers :
         ProviderName[p] \in Elems(eresult.sources) <=> vcall[p] = "fulfilled"

\* the upstream signals present in the request, as the synthesis sees them
SignalsPresent ==
  Bump(combined.labels # <<>>) + Bump(combined.objects # <<>>)
  + Bump(combined.colors # <<>>) + Bump(insight.styleInsights = "some")
  + Bump(erecall.data.historicalContext # "null")

\* C10: the confidence of a returned analysis is the base 0.5 plus 0.1 for
\* each signal present (labels, objects, colors, style insights, the
\* historical-context slot of the recall bundle), and never more than 1.0
\* (counted in tenths: 5, 1 and 10).
C10_ConfidenceIsBasePlusSignals ==
  eresult.status = "ok" =>
    /\ eresult.confidence = 5 + SignalsPresent
    /\ eresult.confidence <= 10

\* C10 witness: an analysis returned with labels and objects only, no colors,
\* no style insights and no historical context: 0.5 + 0.1 + 0.1.
C10_Witness ==
  /\ eresult.status = "ok"
  /\ combined.labels # <<>> /\ combined.objects # <<>> /\ combined.colors = <<>>
  /\ insight.styleInsights # "some"
  /\ erecall.data.historicalContext = "null"
  /\ eresult.confidence = 7

\* C15: once recall has dispatched its calls, the texture call is among them
\* exactly when a string of techniqueInsights holds 'brush', 'texture' or
\* 'impasto'
C15_TextureGateOnTechnique ==
  "wikipedia" \in erecall.ran =>
    ("texture" \in erecall.ran
       <=> insight.technique \cap {"brush", "texture", "impasto"} # {})

-----------------------------------------------------------------------------
(* Claims about analyzeArtwork (SpecAnalyze) *)

AllAPIsFailed == AnalyzeThrew("All APIs failed. Please check your API keys and try again.")

\* C6: when every provider of a request fails, the free sources included,
\* analyzeArtwork throws the 'All APIs failed ...' error instead of returning
\* an analysis; and a provider failure makes the call throw in that case only.
C6_AllFailedSurfacesError ==
  /\ apc = "done" => aok # {}
  /\ (apc = "failed" /\ aresult # AnalyzeThrew("read")) => (aok = {} /\ aresult = AllAPIsFailed)

\* C28: a request goes to Google Vision, Microsoft Vision, OpenAI or the
\* Harvard Art Museums only if checkApiStatus reports that provider as
\* configured
C28_SentOnlyWhenConfigured ==
  /\ "Google Vision" \in asent => checkApiStatus.googleVision
  /\ "Microsoft Vision" \in asent => checkApiStatus.microsoftVision
  /\ "OpenAI" \in asent => checkApiStatus.openai
  /\ "Harvard Art Museums" \in asent => checkApiStatus.harvard

-----------------------------------------------------------------------------
(* Claims about generateAnalysisSummary (SpecSummary) *)

\* C7: the composed summary has exactly 40 units, whichever upstream inputs
\* are present or absent.
C7_AlwaysFortyUnits == spc = "done" => Len(summary) = 40

\* C7 witness: composed with every upstream input absent.
C7_Witness == spc = "done" /\ sinput = NoSummaryInput /\ Len(summary) = 40

\* whether the datum of each topic slot is present in the input
DatumPresent(in) ==
  << in.result.present /\ in.result.description,
     in.result.present /\ in.result.techniques,
     in.result.present /\ in.result.elements,
     in.colorAnalysis.present /\ in.colorAnalysis.dominantColors,
     in.colorAnalysis.present /\ in.colorAnalysis.colorTemperature,
     in.colorAnalysis.present /\ in.colorAnalysis.colorHarmony,
     in.colorAnalysis.present /\ in.colorAnalysis.colorMood,
     in.openAIAnalysis.present /\ in.openAIAnalysis.artisticInsights >= 1,
     in.openAIAnalysis.present /\ in.openAIAnalysis.artisticInsights >= 2,
     in.openAIAnalysis.present /\ "compositionNotes" \in in.openAIAnalysis.fields,
     in.openAIAnalysis.present /\ "colorTheory" \in in.openAIAnalysis.fields,
     in.openAIAnalysis.present /\ "technicalAnalysis" \in in.openAIAnalysis.fields,
     in.openAIAnalysis.present /\ "themes" \in in.openAIAnalysis.fields,
     in.openAIAnalysis.present /\ "emotionalImpact" \in in.openAIAnalysis.fields,
     in.metMuseumData.present
       /\ ((in.metMuseumData.culture /\ in.metMuseumData.objectDate) \/ in.metMuseumData.medium),
     in.metMuseumData.present /\ in.metMuseumData.medium,
     in.wikipediaData.present
       /\ \E i \in 1..Len(in.wikipediaData.extract) : in.wikipediaData.extract[i] \notin Whitespace,
     in.openAIAnalysis.present /\ "learningObjectives" \in in.openAIAnalysis.fields,
     in.openAIAnalysis.present /\ "discussionQuestions" \in in.openAIAnalysis.fields,
     in.similarArtworks >>

\* C8: each of the 20 topic slots holds, at its own position, a real sentence
\* when the slot's datum is present and the one canned sentence of the slot
\* when it is absent; positions 21 to 40 hold the padding sentence.
C8_SlotRealOrCanned ==
  spc = "done" =>
    /\ \A i \in 1..20 :
         IF DatumPresent(sinput)[i]
           THEN summary[i].kind = "real"
           ELSE summary[i] = [kind |-> "canned", text |-> Canned[i]]
    /\ \A i \in 21..40 : summary[i] = [kind |-> "canned", text |-> PaddingSentence]

-----------------------------------------------------------------------------
(* Claims about overlapping requests on the service instance (SpecOverlap) *)

\* C11: when two requests overlap on the service instance, the analysis a
\* request returns holds exactly the stage records that request pushed
\* before returning, and its sources are the providers named in them
C11_RequestsShareNoState ==
  \A r \in Requests :
    rresult[r].status = "ok" =>
      LET own == SubSeq(rwritten[r], 1, Len(rwritten[r]) - 1)
      IN /\ rresult[r].analysisStages = own
         /\ rresult[r].sources = getUsedSources(own)

-----------------------------------------------------------------------------
(* Claims about the order of the stages (SpecComp) *)

\* the request is at one of the positions `at`, or failed in one of them
Reached(at) ==
  \/ cpc \in at
  \/ cpc = "failed" /\ cresult.stage \in at

\* C12: the stages of a request run in order: interpretation is reached only
\* with all three vision calls settled, a recall slot call exists only once
\* interpretation has returned, synthesis is reached only with no recall
\* slot call pending, and from then on the recall bundle is not written
C12_StagesInOrder ==
  /\ [](Reached({"interpretation", "recall", "recalling", "synthesis", "done"})
          => \A p \in Providers : vcall[p] \in {"fulfilled", "rejected"})
  /\ []((\E s \in Slots : cslots[s] # "notrun")
          => Reached({"recall", "recalling", "synthesis", "done"}))
  /\ [](Reached({"synthesis", "done"}) => \A s \in Slots : cslots[s] # "pending")
  /\ [][Reached({"synthesis", "done"}) => recallData' = recallData]_vars

\* a request completed whose recall had a call that returned data and a call
\* that failed
C12_Witness ==
  /\ cpc = "done"
  /\ \E s \in Slots : cslots[s] = "fulfilled" /\ recallData[s] # "null"
  /\ \E s \in Slots : cslots[s] = "failed"

-----------------------------------------------------------------------------
(* Claims about the order of completion (SpecOrder) *)

\* what call c contributes, by the answers fixed for the request alone
Answer(c) == IF oresp[c] THEN OrderData(c) ELSE <<>>

\* C13: when the request has completed, the merged observation, the recall
\* bundle and the similar-artwork list are those determined by the answers of
\* the providers alone, whatever the order in which the calls completed
C13_OutputIndependentOfOrder ==
  opc = "done" =>
    /\ ocombined = Dedup(Answer("clarifai") \o Answer("google") \o Answer("microsoft"))
    /\ \A c \in HandlerCalls : obundle[c] = Answer(c)
    /\ obundle["similarArtworks"] =
         Take(WithSource(Take(Answer("met1"), 1), "Metropolitan Museum of Art")
                \o WithSource(Take(Answer("aic1"), 2), "Art Institute of Chicago")
                \o WithSource(Take(Answer("met2"), 1), "Metropolitan Museum of Art")
                \o WithSource(Take(Answer("aic2"), 2), "Art Institute of Chicago"), 6)

\* a completed request in which every provider answered: three providers'
\* labels merged and both terms' artworks listed
C13_Witness ==
  /\ opc = "done"
  /\ \A c \in OrderCalls : oresp[c]
  /\ Len(ocombined) = 3
  /\ Len(obundle["similarArtworks"]) = 5

-----------------------------------------------------------------------------
(* Claims about the museum searches (SpecSearch) *)

\* C14: a search request that was rejected (401, 403) or answered with
\* another non-2xx status is the last search request the function sends to
\* that provider
C14_NoRetry ==
  \A i \in 1..Len(qlog) :
    qlog[i].kind = "search" /\ qlog[i].outcome \in {"auth", "http"}
      => \A k \in (i + 1)..Len(qlog) : qlog[k].kind # "search"

-----------------------------------------------------------------------------
(* Claims about the credentials of the recall sources (SpecComp) *)

Attempted(s) == cslots[s] # "notrun"

\* C16: a recall that dispatches its calls always asks the Met Museum and
\* the Art Institute, and a call to Harvard Art Museums or Art Search exists
\* only if the credential of that source is configured
C16_CredentialedSourcesNeedKey ==
  /\ Attempted("colorAnalysis")
       => Attempted("metMuseumData") /\ Attempted("artInstituteData")
  /\ Attempted("harvardData") => ckeys.harvard
  /\ Attempted("artSearchData") => ckeys.artsearch

\* a recall that asked the Met Museum, the Art Institute and Harvard, whose
\* key is set, and not Art Search, whose key is absent
C16_Witness ==
  /\ cpc = "recalling"
  /\ Attempted("metMuseumData") /\ Attempted("artInstituteData")
  /\ ckeys.harvard /\ Attempted("harvardData")
  /\ ~ckeys.artsearch /\ ~Attempted("artSearchData")

-----------------------------------------------------------------------------
(* Claims about the reference lookup (SpecWiki) *)

\* the query has no letter or digit, or it is a placeholder once its
\* punctuation is removed
SkippedTerm ==
  \/ trim(removePunctuation(wquery)) = <<>>
  \/ trim(removePunctuation(wquery)) \in skipTerms

\* C17: a lookup that returned sent no request if its term is empty or
\* blocklisted; otherwise it sent one request if the first was answered with
\* a page, two if the first was answered 404, and it returned null if no
\* request was answered with a page
C17_LookupSkipsOrFallsBackOnce ==
  wpc = "done" =>
    IF SkippedTerm THEN wlog = <<>>
    ELSE /\ Len(wlog) \in {1, 2}
         /\ wlog[1].outcome = "ok" => Len(wlog) = 1 /\ wresult = "page"
         /\ wlog[1].outcome = "notfound" => Len(wlog) = 2
         /\ (\A i \in 1..Len(wlog) : wlog[i].outcome # "ok") => wresult = "null"

-----------------------------------------------------------------------------
(* Claims about search-term extraction (SpecTerms) *)

\* C18: the list extractComprehensiveSearchTerms returns has at most 5 terms,
\* each without punctuation and without leading or trailing space, and no
\* term occurs in it twice
C18_TermsCleanUniqueCapped ==
  tpc = "done" /\ ~tterms.threw =>
    /\ Len(tterms.terms) <= 5
    /\ \A i \in 1..Len(tterms.terms) :
         /\ \A k \in 1..Len(tterms.terms[i]) : KeptChar(tterms.terms[i][k])
         /\ trim(tterms.terms[i]) = tterms.terms[i]
    /\ \A i, k \in 1..Len(tterms.terms) : i # k => tterms.terms[i] # tterms.terms[k]

-----------------------------------------------------------------------------
(* Claims about the similar-artwork search (SpecSimilar) *)

\* C19: findSimilarArtworks searches at most 2 terms and returns at most 6
\* results, no two of which have the same title and the same artist
C19_SimilarCappedAndDistinct ==
  mpc = "done" =>
    /\ msearched <= 2
    /\ Len(msimilar) <= 6
    /\ \A i, k \in 1..Len(msimilar) :
         i # k => <<msimilar[i].title, msimilar[i].artist>>
                    # <<msimilar[k].title, msimilar[k].artist>>

-----------------------------------------------------------------------------
(* Claims about parsing a reply (SpecParse) *)

\* the reply is a valid JSON object with nothing but prose before and after
WrappedObject(reply) ==
  \E i, j \in 1..Len(reply) :
    /\ i <= j
    /\ JSONparse(SubSeq(reply, i, j)).kind = "object"
    /\ \A k \in (1..(i - 1)) \cup ((j + 1)..Len(reply)) : reply[k] \in {"x", " "}

\* C20: a reply that wraps a valid JSON object in leading or trailing prose
\* is parsed successfully by every function that parses a reply
C20_WrappedReplyParses ==
  ppc = "done" /\ WrappedObject(preply) => presult.parsed

\* C21: a function whose JSON.parse failed, brace extraction included, ended
\* by throwing: it returned neither a result nor substitute insights
C21_UnparseableReplyFails ==
  ppc = "done" /\ ~presult.parsed => presult.status = "threw"

-----------------------------------------------------------------------------
(* Claims about the colour palette (SpecPalette) *)

\* C22: the palette extractColorsFromImage resolves with is never empty
C22_PaletteNeverEmpty ==
  xpc = "done" => xpalette # <<>>

\* the names, the colours and the percentages of the fixed default palette
DefaultLiteral ==
  << <<"Coral Red", 255, 107, 107, 2500>>, <<"Turquoise", 78, 205, 196, 2000>>,
     <<"Sky Blue", 69, 183, 209, 1800>>, <<"Mint Green", 150, 206, 180, 1500>>,
     <<"Soft Yellow", 255, 234, 167, 1200>>, <<"Plum", 221, 160, 221, 1000>> >>

\* C23: when the image fails to load or there is no drawing context, the
\* palette resolved with is the fixed default palette, entry for entry
C23_DefaultPaletteOnBadImage ==
  xpc = "done" /\ xload \in {"error", "nocontext"} =>
    /\ Len(xpalette) = 6
    /\ \A i \in 1..6 :
         <<xpalette[i].name, xpalette[i].rgb.r, xpalette[i].rgb.g, xpalette[i].rgb.b,
           xpalette[i].percentage>> = DefaultLiteral[i]

\* an image that failed to load, for which a palette was resolved
C23_Witness ==
  xpc = "done" /\ xload = "error" /\ Len(xpalette) = 6

\* C24: the palette of a decoded image has at most 6 entries, in descending
\* order of percentage, each reported percentage above 1.00
C24_PaletteCappedSortedAboveOne ==
  xpc = "done" /\ xload = "decoded" =>
    /\ Len(xpalette) <= 6
    /\ \A i \in 1..(Len(xpalette) - 1) : xpalette[i].percentage >= xpalette[i + 1].percentage
    /\ \A i \in 1..Len(xpalette) : xpalette[i].percentage > 100

\* the number of sampled pixels that fell in the bucket of a palette entry
CountOf(rgb) ==
  LET map == colorMap(xpixels)
  IN IF \E i \in 1..Len(map) : map[i].rgb = rgb
       THEN (CHOOSE e \in Elems(map) : e.rgb = rgb).count
       ELSE 1

\* C25: the percentage of a palette entry is the count of its bucket as a
\* percentage of all sampled non-transparent pixels, hence above 0 and at
\* most 100
C25_PercentageOfSampledPixels ==
  xpc = "done" /\ xload = "decoded" =>
    LET sampled == Len(Opaque(xpixels)) + xcrowd
    IN \A i \in 1..Len(xpalette) :
         /\ xpalette[i].percentage \in 1..10000
         /\ xpalette[i].percentage = RoundDiv(CountOf(xpalette[i].rgb) * 10000, sampled)

\* C26: every entry of an extracted palette is in range: r, g and b are in
\* 0..255, the hue is in 0..359, saturation and lightness are in 0..100
C26_ColorSampleInRange ==
  xpc = "done" /\ xload = "decoded" =>
    \A i \in 1..Len(xpalette) :
      /\ xpalette[i].rgb.r \in 0..255
      /\ xpalette[i].rgb.g \in 0..255
      /\ xpalette[i].rgb.b \in 0..255
      /\ xpalette[i].hsl.h \in 0..359
      /\ xpalette[i].hsl.s \in 0..100
      /\ xpalette[i].hsl.l \in 0..100

-----------------------------------------------------------------------------
(* Claims about the colour harmony (SpecHarmony) *)

\* the class of two colours whose hues are 0 and range
ClassApart(fn, range) ==
  IF fn = "server" THEN HarmonyClass(serverHarmonyOfHues(<<0, range>>))
  ELSE HarmonyClass(analyzeColorHarmony(<<PaletteColor(0), PaletteColor(range)>>))

-----------------------------------------------------------------------------
(* Claims about the analysis screen (SpecScreen, SpecScreenFair) *)

\* C29: whatever the changes of imageUri and imageFile, the mounted screen
\* invokes apiService.analyzeArtwork at most once
C29_AnalyzedAtMostOnce == invoked <= 1

\* the effect ran again after a change and returned at its guard
C29_Witness ==
  /\ invoked = 1
  /\ changes >= 1
  /\ lastEffect = "skipped"

\* C30: the screen eventually navigates home or sets loading to false, and
\* once loading is false exactly one of artworkInfo and error is set
C30_LoadingEnds ==
  /\ <>(screen = "home" \/ ~loading)
  /\ [](~loading => (artworkInfo.null # error.null))

=============================================================================
